---- MODULE Spec2Model ----
(***************************************************************************)
(* Model of the MTFS budget engine (src/unnamed/part_000, the library the  *)
(* tests import as ./mtfs.js): the five-year projection recurrence, the    *)
(* bisection solver, the seeded stress test and the configuration          *)
(* validator.                                                              *)
(*                                                                         *)
(* JavaScript values are modelled as records so that any two of them can   *)
(* be compared:                                                            *)
(*   number     [num |-> n, den |-> d]   an exact rational, d > 0, lowest  *)
(*                                       terms (IEEE rounding is not       *)
(*                                       modelled: arithmetic is exact)    *)
(*   undefined  [nullish |-> "undefined"]                                  *)
(*   null       [nullish |-> "null"]                                       *)
(*   array      [array |-> <<v1, ..., vn>>]                                *)
(*   object     a record of its own fields; a field that is not in the     *)
(*              record's DOMAIN reads as undefined                         *)
(*   string     [string |-> s]           (configuration payloads only)     *)
(*   boolean    [boolean |-> b]          (configuration payloads only)     *)
(* The generator's 32-bit words are [hi |-> h, lo |-> l], two 16-bit       *)
(* halves.                                                                 *)
(* Booleans are TRUE / FALSE and are only read from fields that hold one.  *)
(***************************************************************************)
EXTENDS Integers, Sequences, FiniteSets, TLC

VARIABLES
    \* ---- the caller-owned scenario (the six engine arguments) ----
    inputs, overrides, fundingShock, debt, assumptions, pipeline,
    \* ---- computeProjections: the loop's locals ----
    pc, i, rows, previousBase, cumulativeGap,
    \* ---- solveCouncilTaxIncrease: the loop's locals, the value returned, and
    \*      the midpoints tested so far with what each left behind ----
    solvePc, solveI, low, high, best, solveResult, probes,
    \* ---- computeStressTest: its stress argument, the loop's locals, the
    \*      generator's closure variable t, the value returned, and the calls
    \*      completed so far with what each drew and returned ----
    stress, stressPc, stressI, t, results, draws, stressResult, stressLog,
    \* ---- validateConfig: the payload and the value returned ----
    data, configPc, validation,
    \* ---- the views derived from projection rows: the rows argument, the
    \*      views computed so far and the value each returned ----
    viewRows, viewsDone, waterfall, breakdown, exhaustion, additionalSavings, csv,
    \* ---- computeSensitivity: position, index of the map, locals, return value ----
    sensPc, sensI, baseline, sensitivity,
    \* ---- the caller: the arguments as it supplied them and the calls that
    \*      have returned, each with its result ----
    given, callLog,
    \* ---- buildXlsxBinary: its meta argument xlsxMeta (the rows are viewRows), its
    \*      locals and the archive returned ----
    xlsxMeta, xlsxPc, xlsxI, sheets, sheetEntries, zipEntries, archive,
    \* ---- buildSheetXml on one row: its rowIndex and the cells mapped so far ----
    sheetRow, cells

scenarioVars == <<inputs, overrides, fundingShock, debt, assumptions, pipeline>>
projVars == <<pc, i, rows, previousBase, cumulativeGap>>
solveVars == <<solvePc, solveI, low, high, best, solveResult, probes>>
stressVars == <<stress, stressPc, stressI, t, results, draws, stressResult, stressLog>>
configVars == <<data, configPc, validation>>
viewVars ==
    <<viewRows, viewsDone, waterfall, breakdown, exhaustion, additionalSavings, csv>>
sensVars == <<sensPc, sensI, baseline, sensitivity>>
\* what the engine's own calls never touch
sessionVars == <<given, callLog>>
xlsxVars ==
    <<xlsxMeta, xlsxPc, xlsxI, sheets, sheetEntries, zipEntries, archive, sheetRow, cells>>
analysisVars == <<viewVars, sensVars, sessionVars, xlsxVars>>
vars == <<scenarioVars, projVars, solveVars, stressVars, configVars, analysisVars>>

-----------------------------------------------------------------------------
(* JavaScript values *)

Undefined == [nullish |-> "undefined"]
Null == [nullish |-> "null"]

IsNullish(v) == "nullish" \in DOMAIN v

\* obj?.field : undefined when obj is nullish or has no such field
Get(obj, field) == IF field \in DOMAIN obj THEN obj[field] ELSE Undefined

\* (variant: a || b, which also replaces the number 0)
CoalesceFalsy(a, b) == IF IsNullish(a) \/ a = [num |-> 0, den |-> 1] THEN b ELSE a

\* a ?? b
Coalesce(a, b) == IF IsNullish(a) THEN b ELSE a

\* arr?.[index] with a 0-based index
At(arr, index) ==
    IF "array" \in DOMAIN arr /\ index >= 0 /\ index < Len(arr.array)
    THEN arr.array[index + 1]
    ELSE Undefined

\* !!obj.field for a field that holds a boolean when it is present
Flag(obj, field) == field \in DOMAIN obj /\ obj[field] = TRUE

\* the element of a one-element set: Only({ e(x) : x \in {v} }) is e(v) with
\* v evaluated once, the way a const declaration holds a value once computed
Only(S) == CHOOSE x \in S : TRUE

-----------------------------------------------------------------------------
(* Numbers: exact rationals *)

Abs(x) == IF x < 0 THEN -x ELSE x

RECURSIVE GCD(_, _)
GCD(a, b) == IF b = 0 THEN a ELSE GCD(b, a % b)

Rat(n, d) ==
    LET s == IF d < 0 THEN -1 ELSE 1
        g == GCD(Abs(n), Abs(d))
    IN  [num |-> (s * n) \div g, den |-> (s * d) \div g]

Num(n) == [num |-> n, den |-> 1]
Zero == Num(0)
One == Num(1)

Add(a, b) ==
    LET g == GCD(a.den, b.den)
    IN  Rat(a.num * (b.den \div g) + b.num * (a.den \div g), (a.den \div g) * b.den)

Neg(a) == [num |-> -a.num, den |-> a.den]

Sub(a, b) == Add(a, Neg(b))

Mul(a, b) ==
    LET g1 == GCD(Abs(a.num), b.den)
        g2 == GCD(Abs(b.num), a.den)
    IN  IF a.num = 0 \/ b.num = 0 THEN Zero
        ELSE [num |-> (a.num \div g1) * (b.num \div g2),
              den |-> (a.den \div g2) * (b.den \div g1)]

\* a / 100
Div100(a) == Mul(a, Rat(1, 100))

\* (variant: one factor too many, a^(k + 1))
RECURSIVE PowOneMore(_, _)
PowOneMore(a, k) == IF k = 0 THEN a ELSE Mul(a, PowOneMore(a, k - 1))

\* Math.pow(a, k) for an integer k >= 0 (Math.pow(x, 0) is 1 for every x)
RECURSIVE Pow(_, _)
Pow(a, k) == IF k = 0 THEN One ELSE Mul(a, Pow(a, k - 1))

Sign(a) == IF a.num > 0 THEN 1 ELSE IF a.num < 0 THEN -1 ELSE 0
Gt(a, b) == Sign(Sub(a, b)) > 0
Le(a, b) == ~Gt(a, b)
Lt(a, b) == Gt(b, a)

IsNumber(v) == DOMAIN v = {"num", "den"}

-----------------------------------------------------------------------------
(* Exported defaults (part_000 lines 3-109) *)

initialState ==
    [baseYear |-> 2026,
     previousYearBase |-> Num(200000000),
     plannedSavings |-> Num(10000000),
     demandPressures |-> Num(14000000),
     currentReserves |-> Num(45000000),
     taxBase |-> Num(120000),
     averageBandD |-> Num(1850),
     businessRates |-> Num(62000000),
     revenueSupportGrant |-> Num(18000000),
     otherGrants |-> Num(26000000),
     fundingGrowth |->
        [businessRates |-> Rat(8, 10),
         revenueSupportGrant |-> Rat(-18, 10),
         otherGrants |-> Rat(4, 10)],
     serviceSplits |->
        [Adults |-> Rat(45, 100), Children |-> Rat(3, 10), Housing |-> Rat(25, 100)],
     serviceAssumptions |->
        [Adults |-> [inflationAdj |-> Rat(8, 10), demandAdj |-> Rat(15, 10)],
         Children |-> [inflationAdj |-> Rat(4, 10), demandAdj |-> Num(1)],
         Housing |-> [inflationAdj |-> Rat(2, 10), demandAdj |-> Rat(6, 10)]],
     baseline |->
        [councilTaxIncrease |-> Num(3),
         payAward |-> Num(4),
         generalInflation |-> Num(3),
         socialCareGrowth |-> Rat(45, 10)]]

defaultOverrides ==
    [array |->
        [k \in 1..5 |->
            [enabled |-> FALSE,
             councilTaxIncrease |-> Null,
             payAward |-> Null,
             generalInflation |-> Null,
             socialCareGrowth |-> Null]]]

defaultFundingShock ==
    [enabled |-> FALSE, yearIndex |-> 0, amount |-> Num(-5000000)]

defaultDebt ==
    [debtPrincipal |-> Num(120000000),
     debtInterestRate |-> Rat(42, 10),
     annualCapitalFinancing |-> Num(6500000)]

defaultSavingsPipeline ==
    [array |->
        << [name |-> "Digital channel shift", amount |-> Num(2000000),
            startYear |-> 1, recurring |-> TRUE, confidence |-> Rat(7, 10)],
           [name |-> "Commissioning re-tender", amount |-> Num(3500000),
            startYear |-> 2, recurring |-> TRUE, confidence |-> Rat(55, 100)],
           [name |-> "Asset rationalisation", amount |-> Num(4000000),
            startYear |-> 1, recurring |-> FALSE, confidence |-> Rat(5, 10)] >>]

defaultStress ==
    [seed |-> Num(12345),
     simulations |-> 200,
     inflationSigma |-> Rat(8, 10),
     demandSigma |-> Rat(12, 10),
     paySigma |-> Rat(7, 10),
     ctSigma |-> Rat(6, 10)]

-----------------------------------------------------------------------------
(* Projection engine *)

\* the loop bound of computeProjections: for (let i = 0; i < 5; i += 1)
Horizon == 5

resolveInputsForYear(inp, ovr, index) ==
    LET override == At(ovr, index)
    IN  IF IsNullish(override) \/ ~Flag(override, "enabled") THEN inp
        ELSE [councilTaxIncrease |->
                 Coalesce(Get(override, "councilTaxIncrease"), inp.councilTaxIncrease),
              payAward |-> Coalesce(Get(override, "payAward"), inp.payAward),
              generalInflation |->
                 Coalesce(Get(override, "generalInflation"), inp.generalInflation),
              socialCareGrowth |->
                 Coalesce(Get(override, "socialCareGrowth"), inp.socialCareGrowth)]

\* (variant: a one-off item keeps counting after its start year)
pipelineStepOneOffRecurs(sum, item, yearIndex) ==
    IF item.startYear > yearIndex + 1 THEN sum
    ELSE Add(sum, Mul(item.amount, Coalesce(Get(item, "confidence"), One)))

\* the reducer of calcPipelineSavings, applied to one item
pipelineStep(sum, item, yearIndex) ==
    IF item.startYear > yearIndex + 1 THEN sum
    ELSE IF ~item.recurring /\ item.startYear # yearIndex + 1 THEN sum
    ELSE Add(sum, Mul(item.amount, Coalesce(Get(item, "confidence"), One)))

RECURSIVE reducePipeline(_, _, _)
reducePipeline(items, yearIndex, sum) ==
    IF items = <<>> THEN sum
    ELSE reducePipeline(Tail(items), yearIndex, pipelineStep(sum, Head(items), yearIndex))

calcPipelineSavings(pipe, yearIndex) ==
    reducePipeline(Coalesce(pipe, [array |-> <<>>]).array, yearIndex, Zero)

\* the template literal `Y${i + 1} (${year})`
yearLabel(index, year) ==
    "Y" \o ToString(index + 1) \o " (" \o ToString(year) \o ")"

\* (variant: the interest rate taken as a fraction, not a percentage)
calcDebtCostRateAsFraction(dbt) ==
    Add(Mul(Coalesce(Get(dbt, "debtPrincipal"), Zero),
            Coalesce(Get(dbt, "debtInterestRate"), Zero)),
        Coalesce(Get(dbt, "annualCapitalFinancing"), Zero))

\* (debt?.debtPrincipal ?? 0) * ((debt?.debtInterestRate ?? 0) / 100)
\*   + (debt?.annualCapitalFinancing ?? 0)
calcDebtCost(dbt) ==
    Add(Mul(Coalesce(Get(dbt, "debtPrincipal"), Zero),
            Div100(Coalesce(Get(dbt, "debtInterestRate"), Zero))),
        Coalesce(Get(dbt, "annualCapitalFinancing"), Zero))

\* (variant: the enabled flag is not consulted)
calcShockAmountIgnoringEnabled(shock, index) ==
    IF ~IsNullish(shock) /\ shock.yearIndex = index THEN shock.amount ELSE Zero

\* (variant: the shock is applied from its year onward)
calcShockAmountFromYearOn(shock, index) ==
    IF Flag(shock, "enabled") /\ shock.yearIndex <= index THEN shock.amount ELSE Zero

\* fundingShock?.enabled && fundingShock.yearIndex === i ? fundingShock.amount : 0
calcShockAmount(shock, index) ==
    IF Flag(shock, "enabled") /\ shock.yearIndex = index THEN shock.amount ELSE Zero

\* previousBase * ((yearInputs.payAward + yearInputs.generalInflation) / 100)
calcPayPriceInflation(prevBase, yearInputs) ==
    Mul(prevBase, Div100(Add(yearInputs.payAward, yearInputs.generalInflation)))

\* (variant: the savings are added instead of subtracted)
calcNetBudgetRequirementSavingsAdded(prevBase, payPriceInflation, demandPressures, debtCost, plannedSavings) ==
    Add(Add(Add(Add(prevBase, payPriceInflation), demandPressures), debtCost),
        plannedSavings)

\* previousBase + payPriceInflation + demandPressures + debtCost - plannedSavings
calcNetBudgetRequirement(prevBase, payPriceInflation, demandPressures, debtCost, plannedSavings) ==
    Sub(Add(Add(Add(prevBase, payPriceInflation), demandPressures), debtCost),
        plannedSavings)

\* (variant: cumulativeGap = annualGap, the running sum is lost)
accumulateGapAssigned(cumGap, annualGap) == annualGap

\* cumulativeGap += annualGap
accumulateGap(cumGap, annualGap) == Add(cumGap, annualGap)

\* (variant: i < 4, one iteration too few)
loopContinuesShort(index) == index < Horizon - 1

\* the loop condition i < 5
loopContinues(index) == index < Horizon

\* One iteration of the loop of computeProjections: the row it pushes and the
\* loop-carried previousBase and cumulativeGap it leaves behind.
loopBody(inp, ovr, shock, dbt, asm, pipe, index, prevBase, cumGap) ==
    LET yearInputs == resolveInputsForYear(inp, ovr, index)
        year == asm.baseYear + index + 1
        payPriceInflation == calcPayPriceInflation(prevBase, yearInputs)
        demandPressures ==
            Mul(asm.demandPressures,
                Pow(Add(One, Div100(yearInputs.socialCareGrowth)), index))
        baseSavings == asm.plannedSavings
        pipelineSavings == calcPipelineSavings(pipe, index)
        plannedSavings == Add(baseSavings, pipelineSavings)
        debtCost == calcDebtCost(dbt)
        netBudgetRequirement ==
            calcNetBudgetRequirement(prevBase, payPriceInflation, demandPressures,
                                     debtCost, plannedSavings)
        councilTaxRevenue ==
            Mul(Mul(asm.taxBase, asm.averageBandD),
                Pow(Add(One, Div100(yearInputs.councilTaxIncrease)), index + 1))
        businessRates ==
            Mul(asm.businessRates,
                Pow(Add(One, Div100(asm.fundingGrowth.businessRates)), index))
        revenueSupportGrant ==
            Mul(asm.revenueSupportGrant,
                Pow(Add(One, Div100(asm.fundingGrowth.revenueSupportGrant)), index))
        otherGrants ==
            Mul(asm.otherGrants,
                Pow(Add(One, Div100(asm.fundingGrowth.otherGrants)), index))
        baseFunding ==
            Add(Add(Add(councilTaxRevenue, businessRates), revenueSupportGrant),
                otherGrants)
        shockAmount == calcShockAmount(shock, index)
        totalFunding == Add(baseFunding, shockAmount)
        annualGap == Sub(netBudgetRequirement, totalFunding)
        cumulativeGapAfter == accumulateGap(cumGap, annualGap)
        reservesEnd == Sub(asm.currentReserves, cumulativeGapAfter)
    IN  [row |->
            [year |-> yearLabel(index, year),
             netBudgetRequirement |-> netBudgetRequirement,
             totalFunding |-> totalFunding,
             annualGap |-> annualGap,
             reservesEnd |-> reservesEnd,
             payPriceInflation |-> payPriceInflation,
             demandPressures |-> demandPressures,
             plannedSavings |-> plannedSavings,
             pipelineSavings |-> pipelineSavings,
             councilTaxRevenue |-> councilTaxRevenue,
             businessRates |-> businessRates,
             revenueSupportGrant |-> revenueSupportGrant,
             otherGrants |-> otherGrants,
             debtCost |-> debtCost,
             shockAmount |-> shockAmount],
         previousBase |-> netBudgetRequirement,
         cumulativeGap |-> cumulativeGapAfter]

\* (variant: the default pipeline also replaces null)
pipelineParamForNullish(pipeArg) ==
    IF IsNullish(pipeArg) THEN defaultSavingsPipeline ELSE pipeArg

\* default parameters: assumptions = initialState, pipeline = defaultSavingsPipeline
\* (a default applies to an omitted or undefined argument, not to null)
assumptionsParam(asmArg) == IF asmArg = Undefined THEN initialState ELSE asmArg
pipelineParam(pipeArg) == IF pipeArg = Undefined THEN defaultSavingsPipeline ELSE pipeArg

\* The loop-carried state after n iterations (n = 0: lines 392-393).  Each
\* iteration's outcome is bound as a value before the next one reads it.
RECURSIVE loopState(_, _, _, _, _, _, _)
loopState(inp, ovr, shock, dbt, asm, pipe, n) ==
    IF n = 0
    THEN [previousBase |-> asm.previousYearBase, cumulativeGap |-> Zero]
    ELSE Only({ loopBody(inp, ovr, shock, dbt, asm, pipe, n - 1,
                         before.previousBase, before.cumulativeGap) :
                   before \in {loopState(inp, ovr, shock, dbt, asm, pipe, n - 1)} })

\* computeProjections as a value: rows[k] of the source is element k + 1 here.
computeProjections(inp, ovr, shock, dbt, asmArg, pipeArg) ==
    [k \in 1..Horizon |->
        loopState(inp, ovr, shock, dbt, assumptionsParam(asmArg),
                  pipelineParam(pipeArg), k).row]

-----------------------------------------------------------------------------
(* The scenarios the engine is run on *)

\* largest funding-shock year index tried (the loop only reaches 0..4)
MaxShockYearIndex == 5
\* largest pipeline start year tried (years are 1..5)
MaxStartYear == 6

InputsSet ==
    { [councilTaxIncrease |-> Num(50), payAward |-> Num(50),
       generalInflation |-> Num(0), socialCareGrowth |-> Num(100)],
      [councilTaxIncrease |-> Num(0), payAward |-> Num(0),
       generalInflation |-> Num(50), socialCareGrowth |-> Num(50)],
      [councilTaxIncrease |-> Num(100), payAward |-> Num(-50),
       generalInflation |-> Num(0), socialCareGrowth |-> Num(-100)] }

\* an array of n disabled overrides, as defaultOverrides builds them
disabledOverrides(n) ==
    [k \in 1..n |->
        [enabled |-> FALSE, councilTaxIncrease |-> Null, payAward |-> Null,
         generalInflation |-> Null, socialCareGrowth |-> Null]]

OverrideRecords ==
    { \* enabled, two drivers supplied (one of them 0), two left null
      [enabled |-> TRUE, councilTaxIncrease |-> Num(0), payAward |-> Null,
       generalInflation |-> Num(100), socialCareGrowth |-> Null],
      \* enabled, fields missing altogether
      [enabled |-> TRUE, socialCareGrowth |-> Num(0), payAward |-> Num(100)],
      \* values present but the override is switched off
      [enabled |-> FALSE, councilTaxIncrease |-> Num(100), payAward |-> Num(100),
       generalInflation |-> Num(100), socialCareGrowth |-> Num(0)] }

OverridesSet ==
    {Undefined, defaultOverrides}
    \cup { [array |-> [disabledOverrides(n) EXCEPT ![k] = o]] :
              n \in {2, 5}, k \in {1, 2}, o \in OverrideRecords }
    \cup { [array |-> [disabledOverrides(5) EXCEPT ![k] = o]] :
              k \in {3, 5}, o \in OverrideRecords }

FundingShockSet ==
    {Undefined}
    \cup { [enabled |-> e, yearIndex |-> y, amount |-> Num(a)] :
              e \in BOOLEAN, y \in {-1} \cup 0..MaxShockYearIndex, a \in {-10, 5} }

DebtSet ==
    { Undefined,
      [debtPrincipal |-> Num(100), debtInterestRate |-> Num(5),
       annualCapitalFinancing |-> Num(7)],
      [debtPrincipal |-> Num(100), debtInterestRate |-> Num(5)],
      [debtPrincipal |-> Num(100), annualCapitalFinancing |-> Num(7)],
      [annualCapitalFinancing |-> Num(7), debtPrincipal |-> Null,
       debtInterestRate |-> Num(5)] }

AssumptionsSet ==
    { [baseYear |-> 2026,
       previousYearBase |-> Num(200),
       plannedSavings |-> Num(10),
       demandPressures |-> Num(16),
       currentReserves |-> Num(45),
       taxBase |-> Num(12),
       averageBandD |-> Num(8),
       businessRates |-> Num(64),
       revenueSupportGrant |-> Num(16),
       otherGrants |-> Num(32),
       fundingGrowth |->
          [businessRates |-> Num(50),
           revenueSupportGrant |-> Num(-50),
           otherGrants |-> Num(0)]],
      [baseYear |-> 1999,
       previousYearBase |-> Num(96),
       plannedSavings |-> Num(0),
       demandPressures |-> Num(32),
       currentReserves |-> Num(500),
       taxBase |-> Num(3),
       averageBandD |-> Num(32),
       businessRates |-> Num(0),
       revenueSupportGrant |-> Num(16),
       otherGrants |-> Num(16),
       fundingGrowth |->
          [businessRates |-> Num(0),
           revenueSupportGrant |-> Num(100),
           otherGrants |-> Num(-100)]] }

PipelineItems ==
    { [name |-> "s", amount |-> Num(4), startYear |-> y, recurring |-> r,
       confidence |-> Rat(1, 2)] : y \in 1..MaxStartYear, r \in BOOLEAN }

\* an item without a confidence, and one whose confidence is 0
itemNoConfidence ==
    [name |-> "t", amount |-> Num(6), startYear |-> 2, recurring |-> FALSE]
itemZeroConfidence ==
    [name |-> "z", amount |-> Num(6), startYear |-> 1, recurring |-> TRUE,
     confidence |-> Zero]

PipelineSet ==
    {Undefined, Null, [array |-> <<>>]}
    \cup { [array |-> <<x>>] : x \in PipelineItems }
    \cup { [array |-> <<x, itemNoConfidence>>] : x \in PipelineItems }
    \cup { [array |-> <<itemZeroConfidence, itemNoConfidence, x>>] : x \in PipelineItems }

\* the scenarios vary one argument over its whole set and hold the others to
\* the first few elements of theirs
Arguments == {"inputs", "overrides", "fundingShock", "debt", "assumptions", "pipeline"}

InputsFew == { x \in InputsSet : x.councilTaxIncrease.num < 100 }
OverridesFew == {defaultOverrides, [array |-> [disabledOverrides(5) EXCEPT ![1] =
                    [enabled |-> TRUE, councilTaxIncrease |-> Num(0), payAward |-> Null,
                     generalInflation |-> Num(100), socialCareGrowth |-> Null]]]}
FundingShockFew ==
    { [enabled |-> FALSE, yearIndex |-> 0, amount |-> Num(-10)],
      [enabled |-> TRUE, yearIndex |-> 1, amount |-> Num(-10)] }
DebtFew == { Undefined, [debtPrincipal |-> Num(100), debtInterestRate |-> Num(5),
                         annualCapitalFinancing |-> Num(7)] }
AssumptionsFew == { x \in AssumptionsSet : x.baseYear = 2026 }
PipelineFew == { Undefined,
                 [array |-> <<itemZeroConfidence, itemNoConfidence,
                              [name |-> "s", amount |-> Num(4), startYear |-> 3,
                               recurring |-> TRUE, confidence |-> Rat(1, 2)]>>] }

-----------------------------------------------------------------------------
(* computeProjections as a process: one action per loop iteration *)

\* the values the parameters assumptions and pipeline have inside the call
asmIn == assumptionsParam(assumptions)
pipeIn == pipelineParam(pipeline)

InitScenario ==
    \E wide \in Arguments :
        /\ inputs \in IF wide = "inputs" THEN InputsSet ELSE InputsFew
        /\ overrides \in IF wide = "overrides" THEN OverridesSet ELSE OverridesFew
        /\ fundingShock \in
              IF wide = "fundingShock" THEN FundingShockSet ELSE FundingShockFew
        /\ debt \in IF wide = "debt" THEN DebtSet ELSE DebtFew
        /\ assumptions \in IF wide = "assumptions" THEN AssumptionsSet ELSE AssumptionsFew
        /\ pipeline \in IF wide = "pipeline" THEN PipelineSet ELSE PipelineFew

\* The bit pattern that ToInt32 / ToUint32 give a number, as two 16-bit
\* halves: the word is hi * 2^16 + lo.
Word(hi, lo) == [hi |-> hi, lo |-> lo]

\* An integer-valued number beyond the 32-bit range, as the generator's t can
\* become: upper * 2^26 + lower with 0 <= lower < 2^26.
Wide(upper, lower) == [upper |-> upper, lower |-> lower]

\* no call of computeStressTest under way, none made yet
StressIdle ==
    /\ stressPc = "idle"
    /\ stressI = 0
    /\ t = Wide(0, 0)
    /\ results = <<>>
    /\ draws = <<>>
    /\ stressResult = Undefined
    /\ stressLog = <<>>

\* no call of validateConfig under way
ConfigIdle ==
    /\ data = Undefined
    /\ configPc = "idle"
    /\ validation = Undefined

\* no view of the projection rows computed yet
ViewsNotComputed ==
    /\ viewsDone = {}
    /\ waterfall = <<>>
    /\ breakdown = <<>>
    /\ exhaustion = Undefined
    /\ additionalSavings = Zero
    /\ csv = <<>>

ViewsIdle ==
    /\ viewRows = <<>>
    /\ ViewsNotComputed

\* no call of computeSensitivity under way
SensIdle ==
    /\ sensPc = "idle"
    /\ sensI = 0
    /\ baseline = Undefined
    /\ sensitivity = <<>>

\* no caller following its calls
SessionIdle ==
    /\ given = Undefined
    /\ callLog = <<>>

\* no call of buildXlsxBinary under way
XlsxIdle ==
    /\ xlsxPc = "idle"
    /\ xlsxI = 0
    /\ sheets = <<>>
    /\ sheetEntries = <<>>
    /\ zipEntries = <<>>
    /\ archive = Undefined
    /\ sheetRow = 0
    /\ cells = <<>>

\* none of the calls made on top of the engine under way
AnalysisIdle ==
    /\ ViewsIdle
    /\ SensIdle
    /\ SessionIdle
    /\ xlsxMeta = Undefined
    /\ XlsxIdle

\* no call of computeProjections under way
ProjectIdle ==
    /\ pc = "idle"
    /\ i = 0
    /\ rows = <<>>
    /\ previousBase = Zero
    /\ cumulativeGap = Zero

\* no call of solveCouncilTaxIncrease under way
SolveIdle ==
    /\ solvePc = "idle"
    /\ solveI = 0
    /\ low = Zero
    /\ high = Zero
    /\ best = Null
    /\ solveResult = Undefined
    /\ probes = <<>>

Init ==
    /\ InitScenario
    /\ stress = defaultStress
    /\ ProjectIdle
    /\ SolveIdle
    /\ StressIdle
    /\ AnalysisIdle
    /\ ConfigIdle

\* (variant: cumulativeGap kept from the call before)
ProjectStartStale ==
    /\ pc = "idle"
    /\ pc' = "loop"
    /\ i' = 0
    /\ rows' = <<>>
    /\ previousBase' = asmIn.previousYearBase
    /\ UNCHANGED <<cumulativeGap, scenarioVars, solveVars, stressVars, configVars,
                   analysisVars>>

\* lines 391-393: const rows = []; previousBase = ...; cumulativeGap = 0
ProjectStart ==
    /\ pc = "idle"
    /\ pc' = "loop"
    /\ i' = 0
    /\ rows' = <<>>
    /\ previousBase' = asmIn.previousYearBase
    /\ cumulativeGap' = Zero
    /\ UNCHANGED <<scenarioVars, solveVars, stressVars, configVars, analysisVars>>

\* lines 395-464: one iteration of the for loop
ProjectIterate ==
    /\ pc = "loop"
    /\ loopContinues(i)
    /\ LET after == loopBody(inputs, overrides, fundingShock, debt, asmIn, pipeIn,
                             i, previousBase, cumulativeGap)
       IN  /\ rows' = Append(rows, after.row)
           /\ previousBase' = after.previousBase
           /\ cumulativeGap' = after.cumulativeGap
    /\ i' = i + 1
    /\ UNCHANGED <<pc, scenarioVars, solveVars, stressVars, configVars,
                   analysisVars>>

\* line 466: return rows
ProjectReturn ==
    /\ pc = "loop"
    /\ ~loopContinues(i)
    /\ pc' = "done"
    /\ UNCHANGED <<i, rows, previousBase, cumulativeGap, scenarioVars, solveVars,
                   stressVars, configVars, analysisVars>>

Next == ProjectStart \/ ProjectIterate \/ ProjectReturn

Spec == Init /\ [][Next]_vars

-----------------------------------------------------------------------------
(* solveCouncilTaxIncrease as a process: one action per bisection iteration *)

\* the loop bound of solveCouncilTaxIncrease: for (let i = 0; i < 20; i += 1)
SolveIterations == 20

\* let low = 0; let high = 5
BracketLow == Num(0)
BracketHigh == Num(5)

\* (low + high) / 2
midpoint(lo, hi) == Mul(Add(lo, hi), Rat(1, 2))

\* (variant: high lowered without the midpoint being recorded)
bisectUnrecorded(lo, hi, bst, mid, gap) ==
    IF Gt(gap, Zero)
    THEN [low |-> mid, high |-> hi, best |-> bst]
    ELSE [low |-> lo, high |-> mid, best |-> bst]

\* (variant: the two branches swapped)
bisectSwapped(lo, hi, bst, mid, gap) ==
    IF Gt(gap, Zero)
    THEN [low |-> lo, high |-> mid, best |-> mid]
    ELSE [low |-> mid, high |-> hi, best |-> bst]

\* if (gap > 0) { low = mid } else { high = mid; best = mid }
bisect(lo, hi, bst, mid, gap) ==
    IF Gt(gap, Zero)
    THEN [low |-> mid, high |-> hi, best |-> bst]
    ELSE [low |-> lo, high |-> mid, best |-> mid]

\* one tested midpoint: the rate, its year-1 gap and the locals after the step
probe(mid, gap, after) ==
    [rate |-> mid, gap |-> gap, low |-> after.low, high |-> after.high,
     best |-> after.best]

\* computeProjections({...inputs, councilTaxIncrease: rate}, ...): the rows
testRows(rate) ==
    computeProjections([inputs EXCEPT !.councilTaxIncrease = rate], overrides,
                       fundingShock, debt, assumptions, pipeline)

\* the scenarios the solver is run on: year 1's gap at a rate of 0 is
\* previousYearBase - 202 when pay award, inflation, debt and pipeline add
\* nothing, so the root of the gap lies below, inside, at the end of or beyond
\* the bracket
SolveBases == { Num(201), Num(202), Num(204), Rat(1022, 5), Rat(1034, 5), Num(210) }

SolveAssumptionsSet ==
    { [baseYear |-> 2026,
       previousYearBase |-> b,
       plannedSavings |-> Num(10),
       demandPressures |-> Num(16),
       currentReserves |-> Num(45),
       taxBase |-> Num(tb),
       averageBandD |-> Num(8),
       businessRates |-> Num(64),
       revenueSupportGrant |-> Num(16),
       otherGrants |-> Num(128 - 8 * tb),
       fundingGrowth |->
          [businessRates |-> Num(50),
           revenueSupportGrant |-> Num(-50),
           otherGrants |-> Num(0)]] : b \in SolveBases, tb \in {12, -12} }
    \cup
    \* a gap at rate 0 of 1 / 2^20: its root lies between 0 and the final step
    { [baseYear |-> 2026,
       previousYearBase |-> Add(Num(32), Rat(1, 1048576)),
       plannedSavings |-> Num(0),
       demandPressures |-> Num(0),
       currentReserves |-> Num(45),
       taxBase |-> Num(4),
       averageBandD |-> Num(8),
       businessRates |-> Num(0),
       revenueSupportGrant |-> Num(0),
       otherGrants |-> Num(0),
       fundingGrowth |->
          [businessRates |-> Num(0),
           revenueSupportGrant |-> Num(0),
           otherGrants |-> Num(0)]] }

SolveInputsSet ==
    { [councilTaxIncrease |-> Num(50), payAward |-> Num(0),
       generalInflation |-> Num(0), socialCareGrowth |-> Num(100)],
      [councilTaxIncrease |-> Num(3), payAward |-> Num(-50),
       generalInflation |-> Num(50), socialCareGrowth |-> Num(0)],
      [councilTaxIncrease |-> Num(0), payAward |-> Num(0),
       generalInflation |-> Num(50), socialCareGrowth |-> Num(50)] }

SolveOverridesSet ==
    { defaultOverrides,
      [array |-> [disabledOverrides(5) EXCEPT ![1] =
          [enabled |-> TRUE, councilTaxIncrease |-> Num(0), payAward |-> Null,
           generalInflation |-> Null, socialCareGrowth |-> Null]]],
      [array |-> [disabledOverrides(5) EXCEPT ![1] =
          [enabled |-> TRUE, councilTaxIncrease |-> Null, payAward |-> Num(0),
           generalInflation |-> Null, socialCareGrowth |-> Null]]] }

SolveFundingShockSet ==
    { [enabled |-> FALSE, yearIndex |-> 0, amount |-> Num(-10)],
      [enabled |-> TRUE, yearIndex |-> 0, amount |-> Num(2)],
      [enabled |-> TRUE, yearIndex |-> 1, amount |-> Num(-10)] }

SolveDebtSet ==
    { Undefined, [debtPrincipal |-> Num(100), debtInterestRate |-> Num(2),
                  annualCapitalFinancing |-> Num(0)] }

SolvePipelineSet ==
    { Null, [array |-> <<[name |-> "s", amount |-> Num(4), startYear |-> 1,
                          recurring |-> TRUE, confidence |-> Rat(1, 2)]>>] }

InitSolve ==
    /\ inputs \in SolveInputsSet
    /\ overrides \in SolveOverridesSet
    /\ fundingShock \in SolveFundingShockSet
    /\ debt \in SolveDebtSet
    /\ assumptions \in SolveAssumptionsSet
    /\ pipeline \in SolvePipelineSet
    /\ stress = defaultStress
    /\ ProjectIdle
    /\ SolveIdle
    /\ StressIdle
    /\ AnalysisIdle
    /\ ConfigIdle

\* lines 562-564: let low = 0; let high = 5; let best = null
SolveStart ==
    /\ solvePc = "idle"
    /\ solvePc' = "loop"
    /\ solveI' = 0
    /\ low' = BracketLow
    /\ high' = BracketHigh
    /\ best' = Null
    /\ probes' = <<>>
    /\ UNCHANGED <<solveResult, scenarioVars, projVars, stressVars, configVars, analysisVars>>

\* lines 565-583: one iteration of the for loop
SolveIterate ==
    /\ solvePc = "loop"
    /\ solveI < SolveIterations
    /\ LET mid == midpoint(low, high)
           tested == testRows(mid)
       IN  IF Horizon < 1
           THEN \* the call gave no rows: if (gap === undefined) return null
                /\ solvePc' = "done"
                /\ solveResult' = Null
                /\ UNCHANGED <<solveI, low, high, best, probes>>
           ELSE LET after == bisect(low, high, best, mid, tested[1].annualGap)
                IN  /\ low' = after.low
                    /\ high' = after.high
                    /\ best' = after.best
                    /\ solveI' = solveI + 1
                    /\ probes' = Append(probes, probe(mid, tested[1].annualGap, after))
                    /\ UNCHANGED <<solvePc, solveResult>>
    /\ UNCHANGED <<scenarioVars, projVars, stressVars, configVars, analysisVars>>

\* (variant: return high, the upper end of the bracket)
SolveReturnHigh ==
    /\ solvePc = "loop"
    /\ ~(solveI < SolveIterations)
    /\ solvePc' = "done"
    /\ solveResult' = high
    /\ UNCHANGED <<solveI, low, high, best, probes, scenarioVars, projVars,
                   stressVars, configVars, analysisVars>>

\* line 584: return best
SolveReturn ==
    /\ solvePc = "loop"
    /\ ~(solveI < SolveIterations)
    /\ solvePc' = "done"
    /\ solveResult' = best
    /\ UNCHANGED <<solveI, low, high, best, probes, scenarioVars, projVars,
                   stressVars, configVars, analysisVars>>

NextSolve == SolveStart \/ SolveIterate \/ SolveReturn

SpecSolve == InitSolve /\ [][NextSolve]_vars

-----------------------------------------------------------------------------
(* 32-bit words *)

RECURSIVE BitXor(_, _)
BitXor(x, y) ==
    IF x = 0 THEN y
    ELSE IF y = 0 THEN x
    ELSE 2 * BitXor(x \div 2, y \div 2) + ((x + y) % 2)

RECURSIVE BitOr(_, _)
BitOr(x, y) ==
    IF x = 0 THEN y
    ELSE IF y = 0 THEN x
    ELSE 2 * BitOr(x \div 2, y \div 2) + (IF x % 2 = 1 \/ y % 2 = 1 THEN 1 ELSE 0)

\* a ^ b
Xor32(a, b) ==
    Only({ Word(BitXor(x.hi, y.hi), BitXor(x.lo, y.lo)) : x \in {a}, y \in {b} })

\* a | b
Or32(a, b) ==
    Only({ Word(BitOr(x.hi, y.hi), BitOr(x.lo, y.lo)) : x \in {a}, y \in {b} })

\* a + b as the next 32-bit operator reads it
Add32(a, b) ==
    Only({ Word((x.hi + y.hi + ((x.lo + y.lo) \div 65536)) % 65536,
                (x.lo + y.lo) % 65536) : x \in {a}, y \in {b} })

\* a >>> n for 0 < n < 16
Shr32(a, n) ==
    Only({ Word(x.hi \div (2 ^ n),
                (x.hi % (2 ^ n)) * (65536 \div (2 ^ n)) + (x.lo \div (2 ^ n))) :
              x \in {a} })

\* the low 16 bits of x * y for 16-bit x and y
MulLow16(x, y) == ((((x * (y \div 256)) % 256) * 256) + x * (y % 256)) % 65536

\* Math.imul(a, b): the low 32 bits of the product
Imul(a, b) ==
    Only({ LET p1 == x.lo * (y.lo \div 256)
               p0 == x.lo * (y.lo % 256)
               s == (p1 % 256) * 256 + p0
               carry == (s \div 65536) + (p1 \div 256)
           IN  Word((carry + MulLow16(x.hi, y.lo) + MulLow16(x.lo, y.hi)) % 65536,
                    s % 65536) : x \in {a}, y \in {b} })

-----------------------------------------------------------------------------
(* The seeded generator and the stress test (part_000 lines 593-660) *)

\* (variant: t is a variable that outlives the generator, and a new generator
\* carries on from where the last one stopped)
mulberry32Stale(seed) == t

\* a number as a wide integer (a seed beyond the 32-bit range is given as one)
asWide(v) ==
    IF IsNumber(v) THEN Wide(v.num \div (2 ^ 26), v.num % (2 ^ 26)) ELSE v

\* ToInt32 of a wide integer: its low 32 bits
ToInt32(w) ==
    Word(((w.upper % 64) * 1024 + (w.lower \div 65536)) % 65536, w.lower % 65536)

\* the exact sum of two wide integers
wideAdd(a, b) ==
    Wide(a.upper + b.upper + ((a.lower + b.lower) \div (2 ^ 26)),
         (a.lower + b.lower) % (2 ^ 26))

\* the number of low bits a double cannot hold of a value in 2^53 .. 2^57
lostBits(w) ==
    IF w.upper < 2 ^ 27 THEN 0
    ELSE IF w.upper < 2 ^ 28 THEN 1
    ELSE IF w.upper < 2 ^ 29 THEN 2
    ELSE IF w.upper < 2 ^ 30 THEN 3
    ELSE 4

\* The double nearest to an integer, ties to the even significand: a double
\* holds 53 significant bits, so from 2^53 on only every 2nd, 4th, ... integer
\* is a number.  (Values below -2^53 are not among the scenarios.)
roundToDouble(w) ==
    LET q == 2 ^ lostBits(w)
        r == w.lower % q
        down == w.lower - r
        up == (2 * r > q) \/ (2 * r = q /\ (down \div q) % 2 = 1)
    IN  IF r = 0 THEN w
        ELSE IF ~up THEN Wide(w.upper, down)
        ELSE IF down + q = 2 ^ 26 THEN Wide(w.upper + 1, 0)
        ELSE Wide(w.upper, down + q)

\* mulberry32(seed): let t = seed.  t is a number, not a 32-bit integer; the
\* 32-bit operators that read it take its low 32 bits.
mulberry32(seed) == asWide(seed)

\* t += 0x6d2b79f5: an addition of numbers, with no reduction to 32 bits
mulberry32Advance(state) == roundToDouble(wideAdd(state, Wide(27, 19626485)))

\* the uniform value returned for the advanced state, as the 32-bit numerator
\* of value / 4294967296
mulberry32Output(state) ==
    Only({ Only({ Xor32(r2, Shr32(r2, 14)) :
                     r2 \in { Xor32(r1, Add32(r1, Imul(Xor32(r1, Shr32(r1, 7)),
                                                       Or32(Word(0, 61), r1)))) } }) :
              r1 \in { Imul(Xor32(state, Shr32(state, 15)), Or32(Word(0, 1), state)) } })

\* one call of rand(): the state it leaves and the value it returns
rand(state) ==
    Only({ [t |-> next, value |-> mulberry32Output(ToInt32(next))] :
              next \in {mulberry32Advance(state)} })

\* the quarter of [0, 1) that rand() || 1e-9 falls into (1e-9 lies in the first)
quarter(u) == IF u = Word(0, 0) THEN 0 ELSE u.hi \div 16384

\* Math.sqrt(-2 * Math.log(u)) * Math.cos(2 * Math.PI * v).  The square root,
\* logarithm and cosine are taken at the midpoints of the quarters u and v fall
\* into and the product is rounded to the nearest half:
\*   u in quarter 0..3:  sqrt(-2 ln u) = 2.04, 1.40, 0.97, 0.52
\*   v in quarter 0..3:  cos(2 pi v)   = 0.71, -0.71, -0.71, 0.71
boxMuller(u, v) ==
    LET size == CASE quarter(u) = 0 -> Rat(3, 2)
                  [] quarter(u) = 1 -> One
                  [] OTHER -> Rat(1, 2)
    IN  IF quarter(v) \in {0, 3} THEN size ELSE Neg(size)

\* (variant: v is not drawn, u is used twice)
normalishOneDraw(state) ==
    Only({ [t |-> u.t, value |-> boxMuller(u.value, u.value),
            drawn |-> <<u.value>>] : u \in {rand(state)} })

\* normalish(rand): two draws, u then v
normalish(state) ==
    Only({ Only({ [t |-> v.t, value |-> boxMuller(u.value, v.value),
                   drawn |-> <<u.value, v.value>>] : v \in {rand(u.t)} }) :
              u \in {rand(state)} })

\* count calls of normalish(rand) in a row: the state the generator is left
\* in, the values returned and the uniform values drawn for them
RECURSIVE drawNormals(_, _)
drawNormals(state, count) ==
    IF count = 0 THEN [t |-> state, values |-> <<>>, drawn |-> <<>>]
    ELSE Only({ Only({ [t |-> n.t, values |-> Append(before.values, n.value),
                        drawn |-> before.drawn \o n.drawn] :
                          n \in {normalish(before.t)} }) :
                   before \in {drawNormals(state, count - 1)} })

\* lines 622-630: the tweaked drivers, from the four values of normalish in
\* the order the object literal evaluates them
tweakInputs(inp, normals, str) ==
    [councilTaxIncrease |-> Add(inp.councilTaxIncrease, Mul(normals[1], str.ctSigma)),
     payAward |-> Add(inp.payAward, Mul(normals[2], str.paySigma)),
     generalInflation |->
        Add(inp.generalInflation, Mul(normals[3], str.inflationSigma)),
     socialCareGrowth |->
        Add(inp.socialCareGrowth, Mul(normals[4], str.demandSigma))]

\* lines 639-642: the result pushed for the rows of one simulation
simulationResult(sim) ==
    [year1Gap |-> Coalesce(Get(sim[1], "annualGap"), Zero),
     year5Reserves |-> Coalesce(Get(sim[5], "reservesEnd"), Zero)]

\* lines 622-642: the body of the simulation loop: the state the generator is
\* left in, the values it returned and the result pushed
simulate(inp, ovr, shock, dbt, asmArg, pipeArg, str, state) ==
    Only({ [t |-> n.t,
            drawn |-> n.drawn,
            result |->
               Only({ simulationResult(computeProjections(tweak, ovr, shock, dbt,
                                                          asmArg, pipeArg)) :
                         tweak \in {tweakInputs(inp, n.values, str)} })] :
              n \in {drawNormals(state, 4)} })

RECURSIVE insertSorted(_, _)
insertSorted(x, sorted) ==
    IF sorted = <<>> THEN <<x>>
    ELSE IF Le(x, Head(sorted)) THEN <<x>> \o sorted
    ELSE <<Head(sorted)>> \o insertSorted(x, Tail(sorted))

\* arr.sort((a, b) => a - b)
RECURSIVE sortAscending(_)
sortAscending(arr) ==
    IF arr = <<>> THEN <<>> ELSE insertSorted(Head(arr), sortAscending(Tail(arr)))

\* (variant: the rank rounded up)
pickCeiling(arr, tenths) ==
    LET index == (tenths * (Len(arr) - 1) + 9) \div 10
    IN  IF index >= 0 /\ index < Len(arr) THEN arr[index + 1] ELSE Undefined

\* pick(arr, p) = arr[Math.floor(p * (arr.length - 1))], p given in tenths
pick(arr, tenths) ==
    LET index == (tenths * (Len(arr) - 1)) \div 10
    IN  IF index >= 0 /\ index < Len(arr) THEN arr[index + 1] ELSE Undefined

\* lines 645-659: the summary returned for the results collected
summarise(res) ==
    LET sortedGap == sortAscending([k \in 1..Len(res) |-> res[k].year1Gap])
        sortedRes == sortAscending([k \in 1..Len(res) |-> res[k].year5Reserves])
    IN  [p10Gap |-> pick(sortedGap, 1),
         p50Gap |-> pick(sortedGap, 5),
         p90Gap |-> pick(sortedGap, 9),
         p10Reserves |-> pick(sortedRes, 1),
         p50Reserves |-> pick(sortedRes, 5),
         p90Reserves |-> pick(sortedRes, 9)]

\* most calls of computeStressTest followed in one behaviour
MaxCalls == 3

StressSet ==
    { [seed |-> Num(12345), simulations |-> 2, inflationSigma |-> Num(100),
       demandSigma |-> Num(100), paySigma |-> Num(100), ctSigma |-> Num(100)],
      [seed |-> Num(12345), simulations |-> 3, inflationSigma |-> Num(100),
       demandSigma |-> Num(100), paySigma |-> Num(100), ctSigma |-> Num(100)],
      [seed |-> Num(-1), simulations |-> 1, inflationSigma |-> Num(0),
       demandSigma |-> Num(100), paySigma |-> Num(0), ctSigma |-> Num(100)] }

StressInputsSet == InputsFew

StressPipeline ==
    [array |-> <<itemZeroConfidence, itemNoConfidence,
                 [name |-> "s", amount |-> Num(4), startYear |-> 3,
                  recurring |-> TRUE, confidence |-> Rat(1, 2)]>>]

InitStress ==
    /\ inputs \in StressInputsSet
    /\ overrides \in OverridesFew
    /\ fundingShock = defaultFundingShock
    /\ debt = Undefined
    /\ assumptions \in AssumptionsFew
    /\ pipeline = StressPipeline
    /\ stress \in StressSet
    /\ ProjectIdle
    /\ SolveIdle
    /\ StressIdle
    /\ AnalysisIdle
    /\ ConfigIdle

\* lines 618-619: const rand = mulberry32(stress.seed); const results = []
StressStart ==
    /\ stressPc = "idle"
    /\ stressPc' = "loop"
    /\ t' = mulberry32(stress.seed)
    /\ results' = <<>>
    /\ draws' = <<>>
    /\ stressI' = 0
    /\ UNCHANGED <<stress, stressResult, stressLog, scenarioVars, projVars,
                   solveVars, configVars, analysisVars>>

\* lines 621-643: one iteration of the simulation loop
StressSimulate ==
    /\ stressPc = "loop"
    /\ stressI < stress.simulations
    /\ LET after == simulate(inputs, overrides, fundingShock, debt, assumptions,
                             pipeline, stress, t)
       IN  /\ t' = after.t
           /\ draws' = draws \o after.drawn
           /\ results' = Append(results, after.result)
    /\ stressI' = stressI + 1
    /\ UNCHANGED <<stress, stressPc, stressResult, stressLog, scenarioVars,
                   projVars, solveVars, configVars, analysisVars>>

\* lines 645-659: sort, pick the percentiles and return
StressReturn ==
    /\ stressPc = "loop"
    /\ ~(stressI < stress.simulations)
    /\ stressPc' = "done"
    /\ stressResult' = summarise(results)
    /\ stressLog' = Append(stressLog,
                           [inputs |-> inputs, stress |-> stress, draws |-> draws,
                            summary |-> summarise(results)])
    /\ UNCHANGED <<stress, stressI, t, results, draws, scenarioVars, projVars,
                   solveVars, configVars, analysisVars>>

\* the caller makes another call, with the same or with other inputs and
\* stress parameters
StressAgain ==
    /\ stressPc = "done"
    /\ Len(stressLog) < MaxCalls
    /\ stressPc' = "idle"
    /\ inputs' \in StressInputsSet
    /\ stress' \in StressSet
    /\ UNCHANGED <<overrides, fundingShock, debt, assumptions, pipeline, stressI,
                   t, results, draws, stressResult, stressLog, projVars,
                   solveVars, configVars, analysisVars>>

NextStress == StressStart \/ StressSimulate \/ StressReturn \/ StressAgain

SpecStress == InitStress /\ [][NextStress]_vars

-----------------------------------------------------------------------------
(* One call of computeStressTest for each of several simulation counts, from
   none (an emptied "Simulations" field gives parseNumber("") = 0, App.jsx
   lines 70-71 and 1849-1858) to enough for the three ranks to differ *)

SimulationCounts == {0, 1, 2, 5, 12, 21}

PercentileStressSet ==
    { [seed |-> Num(seed), simulations |-> n, inflationSigma |-> Num(100),
       demandSigma |-> Num(100), paySigma |-> Num(100), ctSigma |-> Num(100)] :
         seed \in {12345, -1}, n \in SimulationCounts }

InitPercentiles ==
    /\ inputs \in StressInputsSet
    /\ overrides = defaultOverrides
    /\ fundingShock = defaultFundingShock
    /\ debt = Undefined
    /\ assumptions \in AssumptionsFew
    /\ pipeline = StressPipeline
    /\ stress \in PercentileStressSet
    /\ ProjectIdle
    /\ SolveIdle
    /\ StressIdle
    /\ AnalysisIdle
    /\ ConfigIdle

NextPercentiles == StressStart \/ StressSimulate \/ StressReturn

SpecPercentiles == InitPercentiles /\ [][NextPercentiles]_vars

-----------------------------------------------------------------------------
(* One generator on its own: created from a seed typed into the "Random seed"
   field (App.jsx lines 1862-1873, any number parseNumber returns), then drawn
   from *)

\* most draws followed from one generator
MaxDraws == 12

\* 12345 (the default), -1, 0, 2^31 - 1, 2^32 - 1, 2^32, 2^53 - 1, 2^53,
\* 2^53 + 2 and 2^54
GeneratorSeeds ==
    { Num(12345), Num(-1), Num(0), Num(2147483647), Wide(63, 2 ^ 26 - 1),
      Wide(64, 0), Wide(2 ^ 27 - 1, 2 ^ 26 - 1), Wide(2 ^ 27, 0), Wide(2 ^ 27, 2),
      Wide(2 ^ 28, 0) }

\* line 618: const rand = mulberry32(stress.seed), no draw made yet
InitGenerator ==
    /\ \E seed \in GeneratorSeeds : stress = [defaultStress EXCEPT !.seed = seed]
    /\ t = mulberry32(stress.seed)
    /\ draws = <<>>
    /\ stressPc = "idle"
    /\ stressI = 0
    /\ results = <<>>
    /\ stressResult = Undefined
    /\ stressLog = <<>>
    /\ inputs = initialState.baseline
    /\ overrides = defaultOverrides
    /\ fundingShock = defaultFundingShock
    /\ debt = defaultDebt
    /\ assumptions = initialState
    /\ pipeline = defaultSavingsPipeline
    /\ ProjectIdle
    /\ SolveIdle
    /\ AnalysisIdle
    /\ ConfigIdle

\* lines 595-600: one call of rand()
Draw ==
    /\ Len(draws) < MaxDraws
    /\ t' = rand(t).t
    /\ draws' = Append(draws, rand(t).value)
    /\ UNCHANGED <<stress, stressPc, stressI, results, stressResult, stressLog,
                   scenarioVars, projVars, solveVars, configVars, analysisVars>>

NextGenerator == Draw

SpecGenerator == InitGenerator /\ [][NextGenerator]_vars

-----------------------------------------------------------------------------
(* validateConfig (part_000 lines 662-671) *)

\* Payloads parsed from JSON also hold strings and booleans:
\*   string   [string |-> s]        boolean  [boolean |-> b]
JsString(s) == [string |-> s]
JsBoolean(b) == [boolean |-> b]

\* the object literal {}
EmptyObject == [f \in {} |-> Undefined]

\* typeof v
typeOf(v) ==
    IF "nullish" \in DOMAIN v
    THEN IF v.nullish = "undefined" THEN "undefined" ELSE "object"
    ELSE IF DOMAIN v = {"num", "den"} THEN "number"
    ELSE IF DOMAIN v = {"string"} THEN "string"
    ELSE IF DOMAIN v = {"boolean"} THEN "boolean"
    ELSE "object"

\* the truthiness that !v and v && ... test
Truthy(v) ==
    IF "nullish" \in DOMAIN v THEN FALSE
    ELSE IF DOMAIN v = {"num", "den"} THEN v.num # 0
    ELSE IF DOMAIN v = {"string"} THEN v.string # ""
    ELSE IF DOMAIN v = {"boolean"} THEN v.boolean
    ELSE TRUE

validateConfig(d) ==
    IF ~Truthy(d) \/ typeOf(d) # "object" THEN [valid |-> FALSE]
    ELSE IF Truthy(Get(d, "assumptions")) /\ typeOf(Get(d, "assumptions")) # "object"
    THEN [valid |-> FALSE]
    ELSE IF Truthy(Get(d, "inputs")) /\ typeOf(Get(d, "inputs")) # "object"
    THEN [valid |-> FALSE]
    ELSE [valid |-> TRUE]

\* the values tried for a payload and for its assumptions and inputs fields
ConfigValues ==
    { Undefined, Null, Zero, Num(7), JsString(""), JsString("bad"),
      JsBoolean(FALSE), JsBoolean(TRUE), [array |-> <<>>], [array |-> <<Num(1)>>],
      EmptyObject, [baseYear |-> Num(-1), taxBase |-> JsString("many")] }

ConfigPayloads ==
    ConfigValues
    \cup { "assumptions" :> a : a \in ConfigValues }
    \cup { "inputs" :> b : b \in ConfigValues }
    \cup { ("assumptions" :> a) @@ ("inputs" :> b) : a, b \in ConfigValues }
    \cup { ("assumptions" :> EmptyObject) @@ ("inputs" :> EmptyObject)
              @@ ("version" :> v) : v \in ConfigValues }

InitConfig ==
    /\ data \in ConfigPayloads
    /\ configPc = "idle"
    /\ validation = Undefined
    /\ inputs = initialState.baseline
    /\ overrides = defaultOverrides
    /\ fundingShock = defaultFundingShock
    /\ debt = defaultDebt
    /\ assumptions = initialState
    /\ pipeline = defaultSavingsPipeline
    /\ stress = defaultStress
    /\ ProjectIdle
    /\ SolveIdle
    /\ StressIdle
    /\ AnalysisIdle

\* one call of validateConfig(data)
Validate ==
    /\ configPc = "idle"
    /\ configPc' = "done"
    /\ validation' = validateConfig(data)
    /\ UNCHANGED <<data, scenarioVars, projVars, solveVars, stressVars, analysisVars>>

NextConfig == Validate

SpecConfig == InitConfig /\ [][NextConfig]_vars

-----------------------------------------------------------------------------
(* Properties of the projection engine *)

\* rows.reduce((acc, row) => acc + row.annualGap, 0) over the first k rows
RECURSIVE SumAnnualGap(_, _)
SumAnnualGap(rs, k) ==
    IF k = 0 THEN Zero ELSE Add(SumAnnualGap(rs, k - 1), rs[k].annualGap)

\* C1: at every point of the loop, each row's reservesEnd is currentReserves
\* minus the sum of the annual gaps of the rows up to and including it, the
\* loop's cumulativeGap is the sum of the annual gaps pushed so far, and after
\* year 5 rows[4].reservesEnd = currentReserves - cumulativeGap.
C1_ReservesAreRunningSum ==
    /\ pc \in {"loop", "done"} =>
          /\ cumulativeGap = SumAnnualGap(rows, Len(rows))
          /\ \A k \in 1..Len(rows) :
                rows[k].reservesEnd =
                    Sub(asmIn.currentReserves, SumAnnualGap(rows, k))
    /\ pc = "done" =>
          rows[Horizon].reservesEnd = Sub(asmIn.currentReserves, cumulativeGap)

\* a completed projection with at least two non-zero annual gaps
C1_Witness ==
    /\ pc = "done"
    /\ Len(rows) = Horizon
    /\ rows[1].annualGap # Zero
    /\ rows[2].annualGap # Zero
    /\ rows[Horizon].reservesEnd # asmIn.currentReserves

\* the base the claim names for row k (1-based): previousYearBase for year 1,
\* the previous row's requirement afterwards
claimedBase(k) ==
    IF k = 1 THEN asmIn.previousYearBase ELSE rows[k - 1].netBudgetRequirement

\* the year-1 requirement of the default scenario, from the formula of the
\* test "computes year 1 net budget requirement deterministically"
defaultYear1 ==
    computeProjections(initialState.baseline, defaultOverrides, defaultFundingShock,
                       defaultDebt, initialState, defaultSavingsPipeline)[1]

\* C2: every row's netBudgetRequirement is previousBase + payPriceInflation +
\* demandPressures + debtCost - plannedSavings, with previousBase the previous
\* row's requirement (previousYearBase for year 1) and payPriceInflation =
\* previousBase * (payAward + generalInflation) / 100 for that year's resolved
\* drivers; the loop carries the requirement forward.
C2_RequirementRecurrence ==
    /\ \A k \in 1..Len(rows) :
          LET yearInputs == resolveInputsForYear(inputs, overrides, k - 1)
              r == rows[k]
          IN  /\ r.payPriceInflation =
                    Mul(claimedBase(k),
                        Rat(yearInputs.payAward.num * yearInputs.generalInflation.den
                              + yearInputs.generalInflation.num * yearInputs.payAward.den,
                            100 * yearInputs.payAward.den * yearInputs.generalInflation.den))
              /\ Add(r.netBudgetRequirement, r.plannedSavings) =
                    Add(Add(Add(claimedBase(k), r.payPriceInflation), r.demandPressures),
                        r.debtCost)
    /\ pc = "loop" /\ Len(rows) > 0 => previousBase = rows[Len(rows)].netBudgetRequirement
    /\ defaultYear1.netBudgetRequirement = Num(226140000)

\* a completed projection whose drivers make pay and price inflation non-zero
\* in year 3 and whose requirement moves from year to year
C2_Witness ==
    /\ pc = "done"
    /\ Len(rows) = Horizon
    /\ rows[3].payPriceInflation # Zero
    /\ rows[2].netBudgetRequirement # rows[1].netBudgetRequirement
    /\ rows[1].plannedSavings # Zero

\* the fields of a projection row
RowFields ==
    {"year", "netBudgetRequirement", "totalFunding", "annualGap", "reservesEnd",
     "payPriceInflation", "demandPressures", "plannedSavings", "pipelineSavings",
     "councilTaxRevenue", "businessRates", "revenueSupportGrant", "otherGrants",
     "debtCost", "shockAmount"}

\* the funding shock is enabled and aimed at one of the five years
ShockInForce ==
    Flag(fundingShock, "enabled") /\ fundingShock.yearIndex \in 0..(Horizon - 1)

\* the same call with the shock disabled
unshocked ==
    computeProjections(inputs, overrides, [fundingShock EXCEPT !.enabled = FALSE],
                       debt, assumptions, pipeline)

\* the places (row, field) where the finished rows differ from the unshocked ones
ShockDifferences ==
    LET u == SubSeq(unshocked, 1, Horizon)
    IN  { <<j, f>> \in (1..Horizon) \X RowFields : rows[j][f] # u[j][f] }

\* year 1 of the default scenario with the shock of the test
\* "applies funding shock to total funding"
defaultYear1Shocked ==
    computeProjections(initialState.baseline, defaultOverrides,
                       [enabled |-> TRUE, yearIndex |-> 0, amount |-> Num(-10000000)],
                       defaultDebt, initialState, defaultSavingsPipeline)[1]

\* C3 as stated: a shock at year index k changes rows[k].totalFunding by exactly
\* its amount and otherwise only annualGap / reservesEnd from year k onward.
C3_OnlyFundingAndDownstream ==
    pc = "done" /\ ShockInForce =>
        LET k == fundingShock.yearIndex + 1
        IN  /\ rows[k].totalFunding = Add(unshocked[k].totalFunding, fundingShock.amount)
            /\ \A d \in ShockDifferences :
                  \/ d = <<k, "totalFunding">>
                  \/ d[1] >= k /\ d[2] \in {"annualGap", "reservesEnd"}

\* C3 (amended): a shock at year index k changes rows[k].totalFunding by exactly
\* its amount, rows[k].shockAmount, and otherwise only annualGap / reservesEnd
\* from year k onward; every field of every earlier row is unchanged.  In the
\* default scenario the shock {true, 0, -10,000,000} moves year 1's totalFunding
\* by exactly -10,000,000 and, in year 1, changes totalFunding, shockAmount,
\* annualGap and reservesEnd only.
C3_ShockFrame ==
    /\ pc = "done" /\ ShockInForce =>
          LET k == fundingShock.yearIndex + 1
          IN  /\ rows[k].totalFunding =
                    Add(unshocked[k].totalFunding, fundingShock.amount)
              /\ \A d \in ShockDifferences :
                    \/ d \in {<<k, "totalFunding">>, <<k, "shockAmount">>}
                    \/ d[1] >= k /\ d[2] \in {"annualGap", "reservesEnd"}
              /\ \A j \in 1..(k - 1) : rows[j] = unshocked[j]
    /\ defaultYear1Shocked.totalFunding.num = defaultYear1.totalFunding.num - 10000000
    /\ defaultYear1Shocked.totalFunding.den = 1
    /\ defaultYear1.totalFunding.den = 1
    /\ { f \in RowFields : defaultYear1Shocked[f] # defaultYear1[f] }
          = {"totalFunding", "shockAmount", "annualGap", "reservesEnd"}

\* a finished projection with a shock in year 3
C3_Witness ==
    /\ pc = "done"
    /\ ShockInForce
    /\ fundingShock.yearIndex = 2
    /\ rows[3].totalFunding # unshocked[3].totalFunding

\* the same call with no shock argument
noShock == computeProjections(inputs, overrides, Undefined, debt, assumptions, pipeline)

\* C27: against the same call with the shock disabled, a shock of amount a in
\* force at year index k moves rows[k].totalFunding by +a, rows[k].annualGap by
\* -a, rows[k].shockAmount from 0 to a and reservesEnd by +a in every row from
\* k on; annualGap and totalFunding of the other rows and netBudgetRequirement
\* of every row stay.  A shock that is not enabled, or whose yearIndex is
\* outside 0..4, leaves every row as it is without a shock.
C27_ShockExactEffect ==
    pc = "done" =>
       IF ShockInForce
       THEN LET k == fundingShock.yearIndex + 1
                a == fundingShock.amount
            IN  /\ rows[k].totalFunding = Add(unshocked[k].totalFunding, a)
                /\ rows[k].annualGap = Sub(unshocked[k].annualGap, a)
                /\ unshocked[k].shockAmount = Zero
                /\ rows[k].shockAmount = a
                /\ \A j \in k..Horizon :
                      rows[j].reservesEnd = Add(unshocked[j].reservesEnd, a)
                /\ \A j \in (1..Horizon) \ {k} :
                      /\ rows[j].annualGap = unshocked[j].annualGap
                      /\ rows[j].totalFunding = unshocked[j].totalFunding
                /\ \A j \in 1..Horizon :
                      rows[j].netBudgetRequirement = unshocked[j].netBudgetRequirement
       ELSE /\ \A j \in 1..Horizon : rows[j] = noShock[j]
            /\ ~IsNullish(fundingShock) =>
                  \A j \in 1..Horizon : rows[j] = unshocked[j]

\* a finished projection with a shock of 5 in year 2
C27_Witness ==
    /\ pc = "done"
    /\ ShockInForce
    /\ fundingShock.yearIndex = 1
    /\ fundingShock.amount = Num(5)
    /\ rows[2].annualGap = Sub(unshocked[2].annualGap, Num(5))
    /\ rows[5].reservesEnd = Add(unshocked[5].reservesEnd, Num(5))
    /\ rows[1] = unshocked[1]

\* C4: the loop pushes one row per iteration and returns after exactly five;
\* row i (0-based) is labelled "Y<i+1> (<baseYear+i+1>)", whatever the lengths
\* of the overrides and the pipeline and whatever the shock's year index.
C4_FiveLabelledRows ==
    /\ pc = "loop" => Len(rows) = i /\ i <= 5
    /\ pc = "done" => Len(rows) = 5
    /\ \A k \in 1..Len(rows) :
          /\ rows[k].year =
                "Y" \o ToString(k) \o " (" \o ToString(assumptions.baseYear + k) \o ")"
          /\ assumptions.baseYear = 2026 /\ k = 1 => rows[k].year = "Y1 (2027)"
          /\ assumptions.baseYear = 1999 /\ k = 5 => rows[k].year = "Y5 (2004)"

\* a finished projection whose overrides array is shorter than the horizon
C4_Witness ==
    /\ pc = "done"
    /\ "array" \in DOMAIN overrides
    /\ Len(overrides.array) = 2
    /\ Len(rows) = 5

\* the driver the claim names for field f in year index idx
claimedDriver(idx, f) ==
    LET exists == "array" \in DOMAIN overrides /\ idx + 1 \in 1..Len(overrides.array)
    IN  IF exists /\ overrides.array[idx + 1].enabled
        THEN LET o == overrides.array[idx + 1]
             IN  IF f \in DOMAIN o /\ o[f] # Null THEN o[f] ELSE inputs[f]
        ELSE inputs[f]

DriverFields == {"councilTaxIncrease", "payAward", "generalInflation", "socialCareGrowth"}

\* the overrides with the one for year index idx switched off
overridesWithout(idx) ==
    IF "array" \in DOMAIN overrides /\ idx + 1 \in 1..Len(overrides.array)
    THEN [array |-> [overrides.array EXCEPT ![idx + 1].enabled = FALSE]]
    ELSE overrides

\* C5: the drivers of year i are, field by field, the enabled override's value
\* when it is non-null (0 counts) and the baseline's otherwise; a missing or
\* disabled override leaves the baseline; an override changes its own year only,
\* and the rows are computed from the drivers so resolved.
C5_DriversPerField ==
    /\ \A idx \in 0..(Horizon - 1) :
          /\ \A f \in DriverFields :
                resolveInputsForYear(inputs, overrides, idx)[f] = claimedDriver(idx, f)
          /\ \A other \in (0..(Horizon - 1)) \ {idx} :
                resolveInputsForYear(inputs, overridesWithout(idx), other)
                   = resolveInputsForYear(inputs, overrides, other)
    /\ \A k \in 1..Len(rows) :
          /\ rows[k].councilTaxRevenue =
                Mul(Mul(asmIn.taxBase, asmIn.averageBandD),
                    Pow(Add(One, Div100(claimedDriver(k - 1, "councilTaxIncrease"))), k))
          /\ rows[k].payPriceInflation =
                Mul(claimedBase(k),
                    Div100(Add(claimedDriver(k - 1, "payAward"),
                               claimedDriver(k - 1, "generalInflation"))))

\* a finished projection in which an enabled override supplies 0 for council
\* tax against a non-zero baseline and leaves pay award null
C5_Witness ==
    /\ pc = "done"
    /\ \E idx \in 0..(Horizon - 1) :
          /\ Flag(At(overrides, idx), "enabled")
          /\ Get(At(overrides, idx), "councilTaxIncrease") = Zero
          /\ Get(At(overrides, idx), "payAward") = Null
          /\ inputs.councilTaxIncrease # Zero
          /\ rows[idx + 1].councilTaxRevenue = Mul(asmIn.taxBase, asmIn.averageBandD)

\* the pipeline items the claim counts in year y (1-based), by position
Contributing(items, y) ==
    { n \in 1..Len(items) :
        \/ items[n].recurring /\ items[n].startYear <= y
        \/ ~items[n].recurring /\ items[n].startYear = y }

\* amount * confidence of item n (an item without a confidence counts in full)
weighted(items, n) ==
    IF "confidence" \in DOMAIN items[n]
    THEN Mul(items[n].amount, items[n].confidence)
    ELSE items[n].amount

RECURSIVE SumWeighted(_, _)
SumWeighted(items, S) ==
    IF S = {} THEN Zero
    ELSE LET n == CHOOSE x \in S : TRUE
         IN  Add(weighted(items, n), SumWeighted(items, S \ {n}))

\* the items of the pipeline the engine was given (none when it is null)
pipelineItems == IF "array" \in DOMAIN pipeIn THEN pipeIn.array ELSE <<>>

\* C6: in every row, pipelineSavings is the sum of amount * confidence over the
\* items that are recurring with startYear <= year or one-off with startYear =
\* year; later-starting items add nothing, a one-off item counts in one year
\* only, and plannedSavings = assumptions.plannedSavings + pipelineSavings.
C6_PipelineSavings ==
    \A k \in 1..Len(rows) :
        /\ rows[k].pipelineSavings =
              SumWeighted(pipelineItems, Contributing(pipelineItems, k))
        /\ rows[k].plannedSavings = Add(asmIn.plannedSavings, rows[k].pipelineSavings)
        /\ (\A n \in 1..Len(pipelineItems) : pipelineItems[n].startYear > k)
              => rows[k].pipelineSavings = Zero
        /\ Len(pipelineItems) = 1 /\ ~pipelineItems[1].recurring
              => /\ pipelineItems[1].startYear # k => rows[k].pipelineSavings = Zero
                 /\ pipelineItems[1].startYear = k =>
                       rows[k].pipelineSavings = weighted(pipelineItems, 1)

\* a finished projection whose pipeline holds a one-off item starting in year 2
\* next to a recurring item starting in year 3: the savings differ by year
C6_Witness ==
    /\ pc = "done"
    /\ \E n \in 1..Len(pipelineItems) :
          ~pipelineItems[n].recurring /\ pipelineItems[n].startYear = 2
    /\ \E n \in 1..Len(pipelineItems) :
          pipelineItems[n].recurring /\ pipelineItems[n].startYear = 3
    /\ rows[1].pipelineSavings # rows[2].pipelineSavings
    /\ rows[2].pipelineSavings # rows[3].pipelineSavings
    /\ rows[3].pipelineSavings # Zero

\* debt field f when it is supplied, 0 otherwise
debtPart(f) == IF f \in DOMAIN debt /\ debt[f] # Null THEN debt[f] ELSE Zero

\* the debt cost the claim names: each missing part counts as zero
claimedDebtCost ==
    Add(Mul(debtPart("debtPrincipal"),
            Rat(debtPart("debtInterestRate").num, 100 * debtPart("debtInterestRate").den)),
        debtPart("annualCapitalFinancing"))

\* every numeric field of row r holds a number
RowIsNumeric(r) == \A f \in RowFields \ {"year"} : IsNumber(r[f])

\* the call runs to its return: every row pushed holds numbers, and the call
\* returns with all the rows of the horizon
NeverStuck ==
    /\ \A k \in 1..Len(rows) : RowIsNumeric(rows[k])
    /\ pc = "loop" => i = Len(rows) /\ i <= Horizon
    /\ pc = "done" => Len(rows) = Horizon

\* C7 as stated: the call always returns its rows; with the pipeline argument
\* absent pipelineSavings is 0 in every row, and a missing debt part adds 0.
C7_AbsentPipelineIsZero ==
    /\ NeverStuck
    /\ IsNullish(pipeline) => \A k \in 1..Len(rows) : rows[k].pipelineSavings = Zero
    /\ \A k \in 1..Len(rows) : rows[k].debtCost = claimedDebtCost

\* C7 (amended): the call always returns its rows; with the pipeline argument
\* null or an empty list pipelineSavings is 0 in every row, while with the
\* argument omitted (undefined) the default savings pipeline is used (3,400,000
\* in year 1 and 3,325,000 from year 2); a missing debt, or a missing or null
\* debt field, adds 0 to debtCost in every row.
C7_AbsentDegrades ==
    /\ NeverStuck
    /\ pipeline \in {Null, [array |-> <<>>]} =>
          \A k \in 1..Len(rows) : rows[k].pipelineSavings = Zero
    /\ pipeline = Undefined =>
          \A k \in 1..Len(rows) :
             rows[k].pipelineSavings = IF k = 1 THEN Num(3400000) ELSE Num(3325000)
    /\ \A k \in 1..Len(rows) : rows[k].debtCost = claimedDebtCost
    /\ debt = Undefined => \A k \in 1..Len(rows) : rows[k].debtCost = Zero

\* a finished projection with a null pipeline and no debt argument
C7_Witness ==
    /\ pc = "done"
    /\ pipeline = Null
    /\ debt = Undefined
    /\ rows[1].debtCost = Zero
    /\ rows[5].pipelineSavings = Zero

\* n^k for integers
RECURSIVE IntPow(_, _)
IntPow(n, k) == IF k = 0 THEN 1 ELSE n * IntPow(n, k - 1)

\* (1 + rate/100)^k, as the k-th power of the fraction in lowest terms
compounded(rate, k) ==
    LET growth == Rat(100 * rate.den + rate.num, 100 * rate.den)
    IN  [num |-> IntPow(growth.num, k), den |-> IntPow(growth.den, k)]

\* C21: in the row of year index i (row k = i + 1), councilTaxRevenue is
\* taxBase * averageBandD * (1 + councilTaxIncrease/100)^(i+1), demandPressures
\* is assumptions.demandPressures * (1 + socialCareGrowth/100)^i and each of
\* businessRates, revenueSupportGrant, otherGrants is its baseline times
\* (1 + its growth rate/100)^i, with the drivers resolved for that year; so in
\* year 1 demand and the three funding lines equal their baselines while the
\* council tax already carries one increase.
C21_YearIndexExponents ==
    \A k \in 1..Len(rows) :
        /\ rows[k].councilTaxRevenue =
              Mul(Mul(asmIn.taxBase, asmIn.averageBandD),
                  compounded(claimedDriver(k - 1, "councilTaxIncrease"), k))
        /\ rows[k].demandPressures =
              Mul(asmIn.demandPressures,
                  compounded(claimedDriver(k - 1, "socialCareGrowth"), k - 1))
        /\ \A line \in {"businessRates", "revenueSupportGrant", "otherGrants"} :
              rows[k][line] =
                 Mul(asmIn[line], compounded(asmIn.fundingGrowth[line], k - 1))
        /\ k = 1 =>
              /\ rows[1].demandPressures = asmIn.demandPressures
              /\ rows[1].businessRates = asmIn.businessRates
              /\ rows[1].revenueSupportGrant = asmIn.revenueSupportGrant
              /\ rows[1].otherGrants = asmIn.otherGrants
              /\ rows[1].councilTaxRevenue =
                    Mul(Mul(asmIn.taxBase, asmIn.averageBandD),
                        Add(One, Div100(claimedDriver(0, "councilTaxIncrease"))))

\* a finished projection in which an override changes the demand growth of
\* year 3: the year's demand is the baseline compounded at the year's own rate,
\* which is not the previous row's demand grown by one more year
C21_Witness ==
    /\ pc = "done"
    /\ claimedDriver(2, "socialCareGrowth") # inputs.socialCareGrowth
    /\ rows[3].demandPressures #
          Mul(rows[2].demandPressures,
              Add(One, Div100(claimedDriver(2, "socialCareGrowth"))))
    /\ rows[1].councilTaxRevenue # Mul(asmIn.taxBase, asmIn.averageBandD)
    /\ rows[2].businessRates # rows[1].businessRates

\* year 1 of the same debt under other drivers, no overrides and no shock
otherDrivers ==
    { computeProjections(x, Undefined, Undefined, debt, assumptions, pipeline)[1] :
         x \in InputsSet }

\* C22: debtCost is one value in all the rows of a projection, principal *
\* (rate/100) + annualCapitalFinancing; it does not move with the year index,
\* the drivers, the overrides, the shock or the rows before (the principal is
\* not paid down).
C22_DebtCostConstant ==
    /\ \A k \in 1..Len(rows) :
          /\ rows[k].debtCost = rows[1].debtCost
          /\ Mul(rows[k].debtCost, Num(100)) =
                Add(Mul(debtPart("debtPrincipal"), debtPart("debtInterestRate")),
                    Mul(debtPart("annualCapitalFinancing"), Num(100)))
    /\ Len(rows) > 0 => \A other \in otherDrivers : other.debtCost = rows[1].debtCost

\* a finished projection with a principal, a rate and capital financing, under
\* an enabled override and a shock in force, whose requirement grows by year
C22_Witness ==
    /\ pc = "done"
    /\ debtPart("debtPrincipal") # Zero
    /\ debtPart("debtInterestRate") # Zero
    /\ debtPart("annualCapitalFinancing") # Zero
    /\ rows[Horizon].debtCost = Num(12)
    /\ rows[Horizon].netBudgetRequirement # rows[1].netBudgetRequirement
    /\ \E idx \in 0..(Horizon - 1) : Flag(At(overrides, idx), "enabled")
    /\ ShockInForce

-----------------------------------------------------------------------------
(* Properties of the solver *)

\* year 1's annualGap with rate substituted as the council-tax driver
gapAt(rate) == testRows(rate)[1].annualGap

\* the bisection's final step size, 5 / 2^20
FinalStep == Rat(5, 1048576)

\* the solver has returned a rate
Solved == solvePc = "done" /\ solveResult # Null

\* C8 as stated: whenever the solver returns a rate r, the year-1 gap at r is
\* <= 0 and the year-1 gap at r - step is > 0.
C8_BracketTight ==
    Solved =>
        /\ Le(gapAt(solveResult), Zero)
        /\ Gt(gapAt(Sub(solveResult, FinalStep)), Zero)

\* C8 (amended): whenever the solver returns a rate r, the year-1 gap at r is
\* <= 0; the year-1 gap at r - step is > 0 provided the gap at the bracket's
\* lower end, rate 0, is > 0.  When the gap at rate 0 is already <= 0 the solver
\* returns r = step, and r - step = 0 yields a gap <= 0.
C8_BracketTightAboveZero ==
    Solved =>
        /\ Le(gapAt(solveResult), Zero)
        /\ Gt(gapAt(BracketLow), Zero) =>
              Gt(gapAt(Sub(solveResult, FinalStep)), Zero)
        /\ Le(gapAt(BracketLow), Zero) =>
              /\ solveResult = FinalStep
              /\ Le(gapAt(Sub(solveResult, FinalStep)), Zero)

\* the solver has returned a rate strictly inside the bracket for a scenario
\* whose gap at rate 0 is positive
C8_Witness ==
    /\ Solved
    /\ Gt(solveResult, Num(2))
    /\ Gt(gapAt(BracketLow), Zero)
    /\ Lt(gapAt(solveResult), Zero)

-----------------------------------------------------------------------------
(* Properties of the stress test *)

IsPrefix(a, b) == Len(a) <= Len(b) /\ a = SubSeq(b, 1, Len(a))

\* C9: any two completed calls of computeStressTest with the same seed, stress
\* parameters and scenario arguments returned the same six summary fields,
\* whatever calls were made in between; and any two generators created from
\* the same seed returned the same sequence of uniform values (the shorter
\* sequence is the start of the longer one), which for seed 12345 starts with
\* 0xFACF78C5 / 2^32.
C9_StressDeterministic ==
    \A a, b \in 1..Len(stressLog) :
        /\ (stressLog[a].stress = stressLog[b].stress
              /\ stressLog[a].inputs = stressLog[b].inputs) =>
                 stressLog[a].summary = stressLog[b].summary
        /\ stressLog[a].stress.seed = stressLog[b].stress.seed =>
              \/ IsPrefix(stressLog[a].draws, stressLog[b].draws)
              \/ IsPrefix(stressLog[b].draws, stressLog[a].draws)
        /\ (stressLog[a].stress.seed = Num(12345) /\ stressLog[a].draws # <<>>) =>
              stressLog[a].draws[1] = Word(64207, 30917)

\* three calls completed: the first and the third with the same arguments,
\* the second with another seed, and the simulations spread the percentiles
C9_Witness ==
    /\ Len(stressLog) = 3
    /\ stressLog[1].stress = stressLog[3].stress
    /\ stressLog[1].inputs = stressLog[3].inputs
    /\ stressLog[2].stress.seed # stressLog[1].stress.seed
    /\ stressLog[2].draws # <<>>
    /\ stressLog[3].stress.simulations = 3
    /\ stressLog[3].summary.p10Gap # stressLog[3].summary.p90Gap
    /\ stressLog[3].summary = stressResult

\* the generator's counter after n draws from the seed
RECURSIVE counterAfter(_, _)
counterAfter(seed, n) ==
    IF n = 0 THEN ToInt32(asWide(seed))
    ELSE Only({ Add32(before, Word(27947, 31221)) :
                   before \in {counterAfter(seed, n - 1)} })

\* the d-th normal variate (d = 1..4) of simulation j (from 0), from the
\* uniform values drawn at positions 8j + 2d - 2 and 8j + 2d - 1 (from 0)
variate(j, d) == boxMuller(draws[8 * j + 2 * d - 1], draws[8 * j + 2 * d])

\* the result simulation j is to record: the projection run once on the
\* drivers moved by the four variates in the order council tax, pay award,
\* general inflation, demand growth
claimedResult(j) ==
    Only({ [year1Gap |-> sim[1].annualGap, year5Reserves |-> sim[Horizon].reservesEnd] :
              sim \in { computeProjections(
                           [councilTaxIncrease |->
                               Add(inputs.councilTaxIncrease,
                                   Mul(variate(j, 1), stress.ctSigma)),
                            payAward |->
                               Add(inputs.payAward, Mul(variate(j, 2), stress.paySigma)),
                            generalInflation |->
                               Add(inputs.generalInflation,
                                   Mul(variate(j, 3), stress.inflationSigma)),
                            socialCareGrowth |->
                               Add(inputs.socialCareGrowth,
                                   Mul(variate(j, 4), stress.demandSigma))],
                           overrides, fundingShock, debt, assumptions, pipeline) } })

\* C23: while a call of computeStressTest runs and when it has returned, the
\* n simulations made so far have drawn exactly 8n uniform values from the one
\* generator seeded at the start of the call (its counter has advanced 8n
\* times), simulation j used draws 8j .. 8j+7, two per variate in the order
\* council tax, pay award, general inflation, demand growth, and recorded the
\* year-1 annualGap and year-5 reservesEnd of one projection.
C23_EightDrawsPerSimulation ==
    stressPc \in {"loop", "done"} =>
       /\ Len(results) = stressI
       /\ Len(draws) = 8 * stressI
       /\ ToInt32(t) = counterAfter(stress.seed, 8 * stressI)
       /\ \A m \in 1..Len(draws) :
             draws[m] = mulberry32Output(counterAfter(stress.seed, m))
       /\ \A j \in 0..(stressI - 1) : results[j + 1] = claimedResult(j)

\* a call that has returned after three simulations whose 24 draws gave the
\* last simulation drivers of its own
C23_Witness ==
    /\ stressPc = "done"
    /\ stressI = 3
    /\ Len(draws) = 24
    /\ results[3] # results[1]
    /\ results[2] # results[1]

\* the six summary fields: the vector each is read from and its p, in tenths
SummaryFields ==
    { <<"p10Gap", "year1Gap", 1>>, <<"p50Gap", "year1Gap", 5>>,
      <<"p90Gap", "year1Gap", 9>>, <<"p10Reserves", "year5Reserves", 1>>,
      <<"p50Reserves", "year5Reserves", 5>>, <<"p90Reserves", "year5Reserves", 9>> }

\* v stands at index rank (from 0) of the values of the simulations' field
\* put in ascending order: fewer than rank + 1 of them are below v and at
\* least rank + 1 of them are v or below
AtRank(v, field, rank) ==
    /\ \E j \in 1..Len(results) : results[j][field] = v
    /\ Cardinality({ j \in 1..Len(results) : Lt(results[j][field], v) }) <= rank
    /\ Cardinality({ j \in 1..Len(results) : Le(results[j][field], v) }) > rank

\* p10 <= p50 <= p90 on both vectors
SummaryOrdered ==
    /\ Le(stressResult.p10Gap, stressResult.p50Gap)
    /\ Le(stressResult.p50Gap, stressResult.p90Gap)
    /\ Le(stressResult.p10Reserves, stressResult.p50Reserves)
    /\ Le(stressResult.p50Reserves, stressResult.p90Reserves)

\* C25 as stated: each of the six summary values is the element at index
\* floor(p * (n - 1)) of its ascending vector, hence one of the simulated
\* values, and p10 <= p50 <= p90 on each vector, for every number n of
\* simulations.
C25_SummaryIsSimulatedValue ==
    stressPc = "done" =>
       /\ \A f \in SummaryFields :
             /\ IsNumber(stressResult[f[1]])
             /\ AtRank(stressResult[f[1]], f[2], (f[3] * (Len(results) - 1)) \div 10)
       /\ SummaryOrdered

\* C25 (amended): for n >= 1 simulations each of the six summary values is
\* the element at index floor(p * (n - 1)) of its ascending vector, with no
\* interpolation, hence one of the simulated values, and p10 <= p50 <= p90 on
\* each vector; with no simulation at all the six values are undefined.
C25_NearestRank ==
    stressPc = "done" =>
       /\ Len(results) >= 1 =>
             /\ \A f \in SummaryFields :
                   /\ IsNumber(stressResult[f[1]])
                   /\ AtRank(stressResult[f[1]], f[2],
                             (f[3] * (Len(results) - 1)) \div 10)
             /\ SummaryOrdered
       /\ Len(results) = 0 =>
             \A f \in SummaryFields : stressResult[f[1]] = Undefined

\* a call returned after 21 simulations whose three ranks 2, 10 and 18 hold
\* three different gaps
C25_Witness ==
    /\ stressPc = "done"
    /\ Len(results) = 21
    /\ Lt(stressResult.p10Gap, stressResult.p50Gap)
    /\ Lt(stressResult.p50Gap, stressResult.p90Gap)
    /\ Lt(stressResult.p10Reserves, stressResult.p90Reserves)

\* C24 as stated: the generator's counter, taken modulo 2^32, is advanced by
\* 0x6d2b79f5 on every draw, whatever the seed and the number of draws, and
\* every draw returns an unsigned 32-bit integer divided by 2^32, so
\* 0 <= u < 1.
C24_CounterModulo32 ==
    /\ ToInt32(t) = counterAfter(stress.seed, Len(draws))
    /\ \A m \in 1..Len(draws) :
          /\ draws[m] = mulberry32Output(counterAfter(stress.seed, m))
          /\ draws[m].hi \in 0..65535
          /\ draws[m].lo \in 0..65535

-----------------------------------------------------------------------------
(* Properties of the validator *)

\* a structured record: an object that is neither null nor an array
IsStructuredRecord(v) ==
    typeOf(v) = "object" /\ "nullish" \notin DOMAIN v /\ "array" \notin DOMAIN v

\* the field is present: it holds something other than undefined or null
IsPresent(d, field) == ~IsNullish(Get(d, field))

\* what the claim says validateConfig(d).valid is
claimedValid(d) ==
    /\ IsStructuredRecord(d)
    /\ IsPresent(d, "assumptions") => IsStructuredRecord(d.assumptions)
    /\ IsPresent(d, "inputs") => IsStructuredRecord(d.inputs)

\* C10 as stated: validateConfig(data).valid is true if and only if data is a
\* non-null structured record and each of data.assumptions and data.inputs,
\* when present, is itself a structured record (not a scalar, not an array);
\* a string payload is rejected and {inputs: {}, assumptions: {}} is accepted.
C10_ValidIffStructured ==
    configPc = "done" =>
        /\ validation.valid <=> claimedValid(data)
        /\ DOMAIN data = {"string"} => ~validation.valid
        /\ data = ("assumptions" :> EmptyObject) @@ ("inputs" :> EmptyObject) =>
              validation.valid


-----------------------------------------------------------------------------
(* Text.  A string is the sequence of its characters, each a one-character
   string, so that what a conversion writes can be read back character by
   character. *)

Digit == <<"0", "1", "2", "3", "4", "5", "6", "7", "8", "9">>

\* the decimal digits of a natural number
RECURSIVE digits(_)
digits(n) ==
    IF n < 10 THEN <<Digit[n + 1]>>
    ELSE digits(n \div 10) \o <<Digit[(n % 10) + 1]>>

\* the digits after the decimal point of r / d, for 0 <= r < d
RECURSIVE fractionDigits(_, _)
fractionDigits(r, d) ==
    IF r = 0 THEN <<>>
    ELSE <<Digit[((r * 10) \div d) + 1]>> \o fractionDigits((r * 10) % d, d)

\* String(number), which Array.prototype.join and a template literal apply to
\* a number: the shortest decimal that reads back as the same number.  The
\* numbers of the scenarios have a finite decimal expansion of fewer than 17
\* digits, which is then that decimal; exponent notation (from 1e21 up, below
\* 1e-6) is out of their range.
numberToString(v) ==
    LET whole == Abs(v.num) \div v.den
        rest == Abs(v.num) % v.den
    IN  (IF v.num < 0 THEN <<"-">> ELSE <<>>) \o digits(whole)
           \o (IF rest = 0 THEN <<>> ELSE <<".">> \o fractionDigits(rest, v.den))

\* the characters of the template literal `Y${i + 1} (${year})`
yearText(index, year) ==
    <<"Y">> \o digits(index + 1) \o <<" ", "(">> \o digits(year) \o <<")">>

\* the characters of a text run together into one string value
RECURSIVE flatten(_)
flatten(text) == IF text = <<>> THEN "" ELSE text[1] \o flatten(Tail(text))

\* the calendar years a row label can name
LabelYears == 2020..2040

\* the characters of a row's label
labelText(label) ==
    CHOOSE text \in { yearText(index, year) : index \in 0..(Horizon - 1),
                                              year \in LabelYears } :
        flatten(text) = label

\* what Array.prototype.join writes for one element: nothing for undefined
\* and null, String(element) otherwise (a string value is [text |-> its
\* characters])
elementText(v) ==
    IF IsNullish(v) THEN <<>>
    ELSE IF IsNumber(v) THEN numberToString(v)
    ELSE v.text

\* Array.prototype.join
RECURSIVE join(_, _)
join(texts, separator) ==
    IF texts = <<>> THEN <<>>
    ELSE IF Len(texts) = 1 THEN texts[1]
    ELSE texts[1] \o separator \o join(Tail(texts), separator)

\* String.prototype.split on a one-character separator: the text is cut at
\* every occurrence of the separator, which gives one piece more than there
\* are occurrences
splitText(text, separator) ==
    LET cuts == { k \in 1..Len(text) : text[k] = separator }
        cutAt(j) ==
            IF j = 0 THEN 0
            ELSE IF j > Cardinality(cuts) THEN Len(text) + 1
            ELSE CHOOSE k \in cuts : Cardinality({ c \in cuts : c < k }) = j - 1
    IN  [j \in 1..(Cardinality(cuts) + 1) |->
            SubSeq(text, cutAt(j - 1) + 1, cutAt(j) - 1)]

-----------------------------------------------------------------------------
(* buildCSV (part_000 lines 120-138) *)

\* lines 121-127
csvHeaders ==
    << <<"Y", "e", "a", "r">>,
       <<"N", "e", "t", " ", "B", "u", "d", "g", "e", "t", " ", "R", "e", "q", "u", "i", "r", "e", "m", "e", "n", "t">>,
       <<"T", "o", "t", "a", "l", " ", "F", "u", "n", "d", "i", "n", "g">>,
       <<"A", "n", "n", "u", "a", "l", " ", "G", "a", "p">>,
       <<"R", "e", "s", "e", "r", "v", "e", "s", " ", "E", "n", "d">> >>

\* (variant: a line that leaves the year out)
csvLineNoYear(row) ==
    join(<<elementText(row.netBudgetRequirement), elementText(row.totalFunding),
           elementText(row.annualGap), elementText(row.reservesEnd)>>, <<",">>)

\* lines 128-136: one line per row
csvLine(row) ==
    join(<<labelText(row.year), elementText(row.netBudgetRequirement),
           elementText(row.totalFunding), elementText(row.annualGap),
           elementText(row.reservesEnd)>>, <<",">>)

\* line 137: [headers.join(","), ...lines].join("\n")
buildCSV(rws) ==
    join(<<join(csvHeaders, <<",">>)>> \o [k \in 1..Len(rws) |-> csvLine(rws[k])],
         <<"\n">>)

-----------------------------------------------------------------------------
(* computeWaterfall, computeServiceBreakdown, findReserveExhaustion
   (part_000 lines 469-503) and solveAdditionalSavings (lines 587-591) *)

\* (variant: the savings entered as they are, not negated)
waterfallOfSavingsAdded(row, asm) ==
    << [label |-> "Base", value |-> asm.previousYearBase],
       [label |-> "Pay+Infl", value |-> row.payPriceInflation],
       [label |-> "Demand", value |-> row.demandPressures],
       [label |-> "Debt", value |-> row.debtCost],
       [label |-> "Savings", value |-> row.plannedSavings],
       [label |-> "Funding", value |-> Neg(row.totalFunding)],
       [label |-> "Gap", value |-> row.annualGap] >>

\* lines 472-480: the seven entries, read from one row
waterfallOf(row, asm) ==
    << [label |-> "Base", value |-> asm.previousYearBase],
       [label |-> "Pay+Infl", value |-> row.payPriceInflation],
       [label |-> "Demand", value |-> row.demandPressures],
       [label |-> "Debt", value |-> row.debtCost],
       [label |-> "Savings", value |-> Neg(row.plannedSavings)],
       [label |-> "Funding", value |-> Neg(row.totalFunding)],
       [label |-> "Gap", value |-> row.annualGap] >>

\* (variant: the entries read from the last row)
computeWaterfallLastRow(rws, asmArg) ==
    IF Len(rws) = 0 THEN <<>>
    ELSE waterfallOf(rws[Len(rws)], assumptionsParam(asmArg))

\* lines 469-481: const year1 = rows[0]; if (!year1) return []
computeWaterfall(rws, asmArg) ==
    IF Len(rws) = 0 THEN <<>>
    ELSE waterfallOf(rws[1], assumptionsParam(asmArg))

\* (variant: the adjustments taken as fractions, not percentages)
serviceFactorUnscaled(adjustments) ==
    Add(One, Add(adjustments.inflationAdj, adjustments.demandAdj))

\* line 491: 1 + (adjustments.inflationAdj + adjustments.demandAdj) / 100
serviceFactor(adjustments) ==
    Add(One, Div100(Add(adjustments.inflationAdj, adjustments.demandAdj)))

\* lines 487-490: assumptions.serviceAssumptions[service] || { 0, 0 }
serviceAdjustments(asm, service) ==
    IF Truthy(Get(asm.serviceAssumptions, service))
    THEN Get(asm.serviceAssumptions, service)
    ELSE [inflationAdj |-> Zero, demandAdj |-> Zero]

\* lines 483-500: the object built by the reduce, one key per service
computeServiceBreakdown(rws, asmArg) ==
    LET asm == assumptionsParam(asmArg)
    IN  [service \in DOMAIN asm.serviceSplits |->
            LET split == asm.serviceSplits[service]
                factor == serviceFactor(serviceAdjustments(asm, service))
            IN  [k \in 1..Len(rws) |->
                    [year |-> rws[k].year,
                     service |-> service,
                     requirement |->
                        Mul(Mul(rws[k].netBudgetRequirement, split), factor),
                     gapShare |-> Mul(Mul(rws[k].annualGap, split), factor)]]]

\* (variant: a row counts as exhausted only below zero)
exhaustedBelowZero(row) == Lt(row.reservesEnd, Zero)

\* line 503: row.reservesEnd <= 0
exhausted(row) == Le(row.reservesEnd, Zero)

\* Array.prototype.find from element k on: the first element the predicate
\* accepts, undefined when there is none
RECURSIVE findFrom(_, _)
findFrom(rws, k) ==
    IF k > Len(rws) THEN Undefined
    ELSE IF exhausted(rws[k]) THEN rws[k]
    ELSE findFrom(rws, k + 1)

\* lines 502-503
findReserveExhaustion(rws) == findFrom(rws, 1)

\* (variant: the gap returned whatever its sign)
solveAdditionalSavingsUnclamped(projections) ==
    IF Len(projections) = 0 THEN Zero ELSE projections[1].annualGap

\* lines 587-591
solveAdditionalSavings(projections) ==
    IF Len(projections) = 0 THEN Zero
    ELSE IF Gt(projections[1].annualGap, Zero) THEN projections[1].annualGap
    ELSE Zero

-----------------------------------------------------------------------------
(* The views as calls on the rows of a scenario (App.jsx lines 167-229) *)

ViewInputsSet == InputsFew

ViewDebtSet ==
    { Undefined,
      [debtPrincipal |-> Zero, debtInterestRate |-> Zero,
       annualCapitalFinancing |-> Num(52)] }

\* service splits and adjustments: one set shaped like initialState's, one
\* whose splits add up to more than 1 and where only Adults has adjustments
ServicesSet ==
    { [serviceSplits |->
          [Adults |-> Rat(1, 2), Children |-> Rat(1, 4), Housing |-> Rat(1, 4)],
       serviceAssumptions |->
          [Adults |-> [inflationAdj |-> Num(50), demandAdj |-> Num(-25)],
           Children |-> [inflationAdj |-> Num(0), demandAdj |-> Num(50)],
           Housing |-> [inflationAdj |-> Num(-50), demandAdj |-> Num(0)]]],
      [serviceSplits |->
          [Adults |-> Rat(1, 2), Children |-> Rat(1, 2), Housing |-> Rat(1, 4)],
       serviceAssumptions |->
          [Adults |-> [inflationAdj |-> Num(50), demandAdj |-> Num(50)]]] }

\* no pipeline item, or the few small ones
ViewPipelineSet == {[array |-> <<>>]} \cup (PipelineFew \ {Undefined})

ViewBases == {Num(200), Num(100)}

ViewAssumptionsSet ==
    { [asm EXCEPT !.previousYearBase = base] @@ services :
         asm \in AssumptionsFew, base \in ViewBases, services \in ServicesSet }

\* the reserves that exactly cover the gaps up to year `target` of the
\* scenario (target 0: the reserves left as they are)
reservesCovering(inp, ovr, shock, dbt, asm, pipe, target) ==
    IF target = 0 THEN asm
    ELSE [asm EXCEPT !.currentReserves =
             loopState(inp, ovr, shock, dbt, asm, pipelineParam(pipe),
                       target).cumulativeGap]

ReserveTargets == {0, 1, 3}

\* the number of rows handed to a view: none, one, or all the engine returns
RowCounts == {0, 1, Horizon}

firstRows(all, count) == [k \in 1..count |-> all[k]]

InitViews ==
    /\ \E asm \in ViewAssumptionsSet, target \in ReserveTargets, count \in RowCounts :
          /\ inputs \in ViewInputsSet
          /\ overrides = defaultOverrides
          /\ fundingShock \in FundingShockFew
          /\ debt \in ViewDebtSet
          /\ pipeline \in ViewPipelineSet
          /\ assumptions =
                reservesCovering(inputs, overrides, fundingShock, debt, asm,
                                 pipeline, target)
          /\ viewRows =
                firstRows(computeProjections(inputs, overrides, fundingShock, debt,
                                             assumptions, pipeline), count)
    /\ stress = defaultStress
    /\ ProjectIdle
    /\ SolveIdle
    /\ StressIdle
    /\ ConfigIdle
    /\ ViewsNotComputed
    /\ SensIdle
    /\ SessionIdle
    /\ xlsxMeta = Undefined
    /\ XlsxIdle

viewFrame ==
    <<scenarioVars, projVars, solveVars, stressVars, configVars, viewRows, sensVars,
      sessionVars, xlsxVars>>

\* App.jsx line 167: computeWaterfall(projections, assumptions)
Waterfall ==
    /\ "waterfall" \notin viewsDone
    /\ viewsDone' = viewsDone \cup {"waterfall"}
    /\ waterfall' = computeWaterfall(viewRows, assumptions)
    /\ UNCHANGED <<viewFrame, breakdown, exhaustion, additionalSavings, csv>>

\* App.jsx line 175: computeServiceBreakdown(projections, assumptions)
ServiceBreakdown ==
    /\ "breakdown" \notin viewsDone
    /\ viewsDone' = viewsDone \cup {"breakdown"}
    /\ breakdown' = computeServiceBreakdown(viewRows, assumptions)
    /\ UNCHANGED <<viewFrame, waterfall, exhaustion, additionalSavings, csv>>

\* App.jsx line 178: findReserveExhaustion(projections)
ReserveExhaustion ==
    /\ "exhaustion" \notin viewsDone
    /\ viewsDone' = viewsDone \cup {"exhaustion"}
    /\ exhaustion' = findReserveExhaustion(viewRows)
    /\ UNCHANGED <<viewFrame, waterfall, breakdown, additionalSavings, csv>>

\* App.jsx line 226: solveAdditionalSavings(projections)
AdditionalSavings ==
    /\ "additionalSavings" \notin viewsDone
    /\ viewsDone' = viewsDone \cup {"additionalSavings"}
    /\ additionalSavings' = solveAdditionalSavings(viewRows)
    /\ UNCHANGED <<viewFrame, waterfall, breakdown, exhaustion, csv>>

\* App.jsx line 229: buildCSV(projections)
ExportCSV ==
    /\ "csv" \notin viewsDone
    /\ viewsDone' = viewsDone \cup {"csv"}
    /\ csv' = buildCSV(viewRows)
    /\ UNCHANGED <<viewFrame, waterfall, breakdown, exhaustion, additionalSavings>>

NextViews ==
    Waterfall \/ ServiceBreakdown \/ ReserveExhaustion \/ AdditionalSavings
       \/ ExportCSV

SpecViews == InitViews /\ [][NextViews]_vars

-----------------------------------------------------------------------------
(* The waterfall of a scenario with overrides, pipeline items and shocks
   (App.jsx lines 151-169): the rows and the assumptions handed over are
   those of one computeProjections call *)

WaterfallShocks ==
    FundingShockFew \cup {[enabled |-> TRUE, yearIndex |-> 0, amount |-> Num(-10)]}

WaterfallPipelines == PipelineFew \cup SolvePipelineSet

InitWaterfall ==
    /\ inputs \in InputsFew
    /\ overrides \in OverridesFew
    /\ fundingShock \in WaterfallShocks
    /\ debt \in DebtFew
    /\ assumptions \in AssumptionsFew
    /\ pipeline \in WaterfallPipelines
    /\ viewRows =
          firstRows(computeProjections(inputs, overrides, fundingShock, debt,
                                       assumptions, pipeline), Horizon)
    /\ stress = defaultStress
    /\ ProjectIdle
    /\ SolveIdle
    /\ StressIdle
    /\ ConfigIdle
    /\ ViewsNotComputed
    /\ SensIdle
    /\ SessionIdle
    /\ xlsxMeta = Undefined
    /\ XlsxIdle

NextWaterfall == Waterfall

SpecWaterfall == InitWaterfall /\ [][NextWaterfall]_vars

-----------------------------------------------------------------------------
(* computeSensitivity (part_000 lines 505-552) *)

\* lines 513-518
drivers ==
    << [key |-> "councilTaxIncrease", label |-> "Council Tax %"],
       [key |-> "payAward", label |-> "Pay Award %"],
       [key |-> "generalInflation", label |-> "General Inflation %"],
       [key |-> "socialCareGrowth", label |-> "Demand Growth %"] >>

\* (variant: obj[key] = value, the object itself is changed)
spreadAssigned(obj, key, value) ==
    [copy |-> [obj EXCEPT ![key] = value], original |-> [obj EXCEPT ![key] = value]]

\* the object literal { ...obj, [key]: value }: a new object with obj's
\* fields and the one replaced; obj itself keeps its fields
spread(obj, key, value) ==
    [copy |-> [obj EXCEPT ![key] = value], original |-> obj]

\* computeProjections(...)[0]?.annualGap
yearOneGap(inp, ovr, shock, dbt, asmArg, pipeArg) ==
    IF Horizon < 1 THEN Undefined
    ELSE computeProjections(inp, ovr, shock, dbt, asmArg, pipeArg)[1].annualGap

\* (variant: down measured in the direction of up)
sensitivityEntryDownReversed(driver, base, upGap, downGap) ==
    [driver |-> driver.label,
     up |-> Sub(Coalesce(upGap, Zero), Coalesce(base, Zero)),
     down |-> Sub(Coalesce(downGap, Zero), Coalesce(base, Zero))]

\* lines 546-550
sensitivityEntry(driver, base, upGap, downGap) ==
    [driver |-> driver.label,
     up |-> Sub(Coalesce(upGap, Zero), Coalesce(base, Zero)),
     down |-> Sub(Coalesce(base, Zero), Coalesce(downGap, Zero))]

\* the scenarios: every argument over its few values, the inputs over all
InitSens ==
    /\ inputs \in InputsSet
    /\ overrides \in OverridesFew
    /\ fundingShock \in FundingShockFew
    /\ debt \in DebtFew
    /\ assumptions \in AssumptionsFew \cup {Undefined}
    /\ pipeline \in PipelineFew
    /\ stress = defaultStress
    /\ ProjectIdle
    /\ SolveIdle
    /\ StressIdle
    /\ ConfigIdle
    /\ ViewsIdle
    /\ SensIdle
    /\ SessionIdle
    /\ xlsxMeta = Undefined
    /\ XlsxIdle

sensFrame ==
    <<projVars, solveVars, stressVars, configVars, viewVars, sessionVars, xlsxVars>>

\* lines 519-526: the baseline gap
SensStart ==
    /\ sensPc = "idle"
    /\ sensPc' = "map"
    /\ sensI' = 0
    /\ sensitivity' = <<>>
    /\ baseline' = yearOneGap(inputs, overrides, fundingShock, debt, assumptions,
                              pipeline)
    /\ UNCHANGED <<scenarioVars, sensFrame>>

\* lines 527-551: the map callback for one driver
SensDriver ==
    /\ sensPc = "map"
    /\ sensI < Len(drivers)
    /\ LET driver == drivers[sensI + 1]
           upInputs == spread(inputs, driver.key, Add(inputs[driver.key], One))
           downInputs ==
               spread(upInputs.original, driver.key,
                      Sub(upInputs.original[driver.key], One))
           upGap == yearOneGap(upInputs.copy, overrides, fundingShock, debt,
                               assumptions, pipeline)
           downGap == yearOneGap(downInputs.copy, overrides, fundingShock, debt,
                                 assumptions, pipeline)
       IN  /\ inputs' = downInputs.original
           /\ sensitivity' =
                 Append(sensitivity, sensitivityEntry(driver, baseline, upGap, downGap))
    /\ sensI' = sensI + 1
    /\ UNCHANGED <<sensPc, baseline, overrides, fundingShock, debt, assumptions,
                   pipeline, stress, sensFrame>>

\* line 527: the map returns once every driver has its entry
SensReturn ==
    /\ sensPc = "map"
    /\ sensI >= Len(drivers)
    /\ sensPc' = "done"
    /\ UNCHANGED <<sensI, baseline, sensitivity, scenarioVars, sensFrame>>

NextSens == SensStart \/ SensDriver \/ SensReturn

SpecSens == InitSens /\ [][NextSens]_vars

-----------------------------------------------------------------------------
(* A caller making one call after another on the same arguments: the four
   functions that take the scenario (App.jsx lines 156-225) *)

\* most calls followed in one behaviour
MaxSessionCalls == 3

\* the seven caller-owned structures
suppliedArguments ==
    [inputs |-> inputs, overrides |-> overrides, fundingShock |-> fundingShock,
     debt |-> debt, assumptions |-> assumptions, pipeline |-> pipeline,
     stress |-> stress]

SessionStressSet == { x \in StressSet : x.simulations < 3 }

InitSession ==
    /\ inputs \in StressInputsSet
    /\ overrides = defaultOverrides
    /\ fundingShock = defaultFundingShock
    /\ debt = Undefined
    /\ assumptions \in AssumptionsFew
    /\ pipeline = StressPipeline
    /\ stress \in SessionStressSet
    /\ ProjectIdle
    /\ SolveIdle
    /\ StressIdle
    /\ ConfigIdle
    /\ ViewsIdle
    /\ SensIdle
    /\ xlsxMeta = Undefined
    /\ XlsxIdle
    /\ given = suppliedArguments
    /\ callLog = <<>>

\* every call made so far has returned to the caller
Quiet ==
    /\ pc = "idle"
    /\ sensPc = "idle"
    /\ solvePc = "idle"
    /\ stressPc = "idle"

\* execution is synchronous: a call starts when no other is under way
CallProjections == Quiet /\ Len(callLog) < MaxSessionCalls /\ ProjectStart
CallSensitivity == Quiet /\ Len(callLog) < MaxSessionCalls /\ SensStart
CallSolver == Quiet /\ Len(callLog) < MaxSessionCalls /\ SolveStart
CallStressTest == Quiet /\ Len(callLog) < MaxSessionCalls /\ StressStart

\* the caller receives what a call returned
returned(call, result) == Append(callLog, [call |-> call, result |-> result])

ReceiveProjections ==
    /\ pc = "done"
    /\ pc' = "idle"
    /\ callLog' = returned("computeProjections", rows)
    /\ UNCHANGED <<i, rows, previousBase, cumulativeGap, scenarioVars, solveVars,
                   stressVars, configVars, viewVars, sensVars, given,
                   xlsxVars>>

ReceiveSensitivity ==
    /\ sensPc = "done"
    /\ sensPc' = "idle"
    /\ callLog' = returned("computeSensitivity", sensitivity)
    /\ UNCHANGED <<sensI, baseline, sensitivity, scenarioVars, projVars, solveVars,
                   stressVars, configVars, viewVars, given,
                   xlsxVars>>

ReceiveSolution ==
    /\ solvePc = "done"
    /\ solvePc' = "idle"
    /\ callLog' = returned("solveCouncilTaxIncrease", solveResult)
    /\ UNCHANGED <<solveI, low, high, best, solveResult, probes, scenarioVars,
                   projVars, stressVars, configVars, viewVars, sensVars, given,
                   xlsxVars>>

ReceiveStressTest ==
    /\ stressPc = "done"
    /\ stressPc' = "idle"
    /\ callLog' = returned("computeStressTest", stressResult)
    /\ UNCHANGED <<stress, stressI, t, results, draws, stressResult, stressLog,
                   scenarioVars, projVars, solveVars, configVars, viewVars,
                   sensVars, given,
                   xlsxVars>>

NextSession ==
    \/ CallProjections \/ ProjectIterate \/ ProjectReturn \/ ReceiveProjections
    \/ CallSensitivity \/ SensDriver \/ SensReturn \/ ReceiveSensitivity
    \/ CallSolver \/ SolveIterate \/ SolveReturn \/ ReceiveSolution
    \/ CallStressTest \/ StressSimulate \/ StressReturn \/ ReceiveStressTest

SpecSession == InitSession /\ [][NextSession]_vars

-----------------------------------------------------------------------------
(* buildXlsxBinary (part_000 lines 140-348): the sheets.

   In the texts of the workbook a piece is one character or a run of
   characters none of which is & < > " ' ; so that the replacements of
   escapeXml and the entities of a reader act on single pieces. *)

\* a string value
Text(pieces) == [text |-> pieces]
Lit(run) == Text(<<run>>)
EmptyText == Text(<<>>)

\* String(value)
stringOf(value) ==
    IF IsNullish(value) THEN <<value.nullish>>
    ELSE IF IsNumber(value) THEN numberToString(value)
    ELSE value.text

\* a field that the model holds as a plain integer, as the number it is
plainNumber(obj, field) ==
    IF field \in DOMAIN obj THEN Num(obj[field]) ELSE Undefined

\* condition ? "Yes" : "No"
yesNo(condition) == IF condition THEN Lit("Yes") ELSE Lit("No")

\* lines 141-156: the header row and one row per projection row
projectionRows(rws) ==
    << <<Lit("Year"), Lit("Net Budget Requirement"), Lit("Total Funding"),
         Lit("Annual Gap"), Lit("Reserves End")>> >>
    \o [k \in 1..Len(rws) |->
          <<Text(labelText(rws[k].year)), rws[k].netBudgetRequirement,
            rws[k].totalFunding, rws[k].annualGap, rws[k].reservesEnd>>]

\* lines 161-172
scenarioSheet(meta) ==
    [name |-> "Scenario",
     rows |->
        << <<Lit("Scenario Summary")>>,
           <<Lit("Scenario"), Coalesce(Get(meta, "scenario"), EmptyText)>>,
           <<Lit("Generated"), Coalesce(Get(meta, "timestamp"), EmptyText)>>,
           <<Lit("Council Tax %"),
             Coalesce(Get(Get(meta, "inputs"), "councilTaxIncrease"), EmptyText)>>,
           <<Lit("Pay Award %"),
             Coalesce(Get(Get(meta, "inputs"), "payAward"), EmptyText)>>,
           <<Lit("Inflation %"),
             Coalesce(Get(Get(meta, "inputs"), "generalInflation"), EmptyText)>>,
           <<Lit("Demand %"),
             Coalesce(Get(Get(meta, "inputs"), "socialCareGrowth"), EmptyText)>> >>]

\* one [label, meta.<group>?.<field> ?? ""] row
labelled(label, meta, group, field) ==
    <<Lit(label), Coalesce(Get(Get(meta, group), field), EmptyText)>>

\* lines 173-197
assumptionsSheet(meta) ==
    [name |-> "Assumptions",
     rows |->
        << <<Lit("Core Assumptions")>>,
           labelled("Previous Year Base", meta, "assumptions", "previousYearBase"),
           labelled("Demand Pressures", meta, "assumptions", "demandPressures"),
           labelled("Planned Savings", meta, "assumptions", "plannedSavings"),
           labelled("Current Reserves", meta, "assumptions", "currentReserves"),
           labelled("Tax Base", meta, "assumptions", "taxBase"),
           labelled("Average Band D", meta, "assumptions", "averageBandD"),
           labelled("Business Rates", meta, "assumptions", "businessRates"),
           labelled("Revenue Support Grant", meta, "assumptions", "revenueSupportGrant"),
           labelled("Other Grants", meta, "assumptions", "otherGrants"),
           <<>>,
           <<Lit("Funding Shock")>>,
           <<Lit("Enabled"), yesNo(Flag(Get(meta, "fundingShock"), "enabled"))>>,
           <<Lit("Year Index"),
             Coalesce(plainNumber(Get(meta, "fundingShock"), "yearIndex"), EmptyText)>>,
           labelled("Amount", meta, "fundingShock", "amount"),
           <<>>,
           <<Text(<<"Debt ", "&", " Capital Financing">>)>>,
           labelled("Debt Principal", meta, "debt", "debtPrincipal"),
           labelled("Debt Interest Rate", meta, "debt", "debtInterestRate"),
           labelled("Annual Capital Financing", meta, "debt", "annualCapitalFinancing") >>]

\* lines 203-209: the row of one pipeline item
savingsRow(item) ==
    <<Coalesce(Get(item, "name"), EmptyText),
      Coalesce(Get(item, "amount"), EmptyText),
      Coalesce(plainNumber(item, "startYear"), EmptyText),
      yesNo(Flag(item, "recurring")),
      Coalesce(Get(item, "confidence"), EmptyText)>>

\* meta.<field> ?? []
listOf(meta, field) == Coalesce(Get(meta, field), [array |-> <<>>]).array

\* lines 198-211
savingsSheet(meta) ==
    [name |-> "Savings",
     rows |->
        << <<Lit("Savings Pipeline")>>,
           <<Lit("Name"), Lit("Amount"), Lit("Start Year"), Lit("Recurring"),
             Lit("Confidence")>> >>
        \o [k \in 1..Len(listOf(meta, "pipeline")) |->
              savingsRow(listOf(meta, "pipeline")[k])]]

\* lines 217-224: the row of one override
overrideRow(item, idx) ==
    <<Text(<<"Y">> \o digits(idx + 1)),
      yesNo(Flag(item, "enabled")),
      Coalesce(Get(item, "councilTaxIncrease"), EmptyText),
      Coalesce(Get(item, "payAward"), EmptyText),
      Coalesce(Get(item, "generalInflation"), EmptyText),
      Coalesce(Get(item, "socialCareGrowth"), EmptyText)>>

\* lines 212-226
overridesSheet(meta) ==
    [name |-> "Overrides",
     rows |->
        << <<Lit("Per-Year Overrides")>>,
           <<Lit("Year"), Lit("Enabled"), Lit("CT %"), Lit("Pay %"),
             Lit("Inflation %"), Lit("Demand %")>> >>
        \o [k \in 1..Len(listOf(meta, "overrides")) |->
              overrideRow(listOf(meta, "overrides")[k], k - 1)]]

\* lines 227-236
governanceSheet(meta) ==
    [name |-> "Governance",
     rows |->
        << <<Lit("Governance Notes")>> >>
        \o [k \in 1..Len(listOf(meta, "governanceNotes")) |->
              <<Text(<<"Y">> \o digits(k)),
                Coalesce(listOf(meta, "governanceNotes")[k], EmptyText)>>]]

\* lines 237-244
stressSheet(meta) ==
    [name |-> "Stress",
     rows |->
        << <<Lit("Stress Test")>>,
           <<Lit("Simulations"),
             Coalesce(plainNumber(Get(meta, "stress"), "simulations"), EmptyText)>>,
           labelled("Seed", meta, "stress", "seed") >>]

\* buildXlsxBinary's default parameter: meta = null
metaParam(metaArg) == IF metaArg = Undefined THEN Null ELSE metaArg

\* (variant: the Stress sheet left out)
buildSheetsNoStress(rws, metaArg) ==
    << [name |-> "Projections", rows |-> projectionRows(rws)] >>
    \o (IF ~Truthy(metaParam(metaArg)) THEN <<>>
        ELSE << scenarioSheet(metaParam(metaArg)), assumptionsSheet(metaParam(metaArg)),
                savingsSheet(metaParam(metaArg)), overridesSheet(metaParam(metaArg)),
                governanceSheet(metaParam(metaArg)) >>)

\* lines 158-245: const sheets = [Projections]; if (meta) { sheets.push(...) x 6 }
buildSheets(rws, metaArg) ==
    << [name |-> "Projections", rows |-> projectionRows(rws)] >>
    \o (IF ~Truthy(metaParam(metaArg)) THEN <<>>
        ELSE << scenarioSheet(metaParam(metaArg)), assumptionsSheet(metaParam(metaArg)),
                savingsSheet(metaParam(metaArg)), overridesSheet(metaParam(metaArg)),
                governanceSheet(metaParam(metaArg)), stressSheet(metaParam(metaArg)) >>)

-----------------------------------------------------------------------------
(* buildXlsxBinary: the XML parts and the archive (lines 247-347) *)

\* String.prototype.replace(/c/g, replacement) for a one-character pattern
RECURSIVE replaceAll(_, _, _)
replaceAll(text, c, replacement) ==
    IF text = <<>> THEN <<>>
    ELSE (IF text[1] = c THEN replacement ELSE <<text[1]>>)
             \o replaceAll(Tail(text), c, replacement)

\* (variant: the ampersand replaced last)
escapeXmlAmpersandLast(value) ==
    replaceAll(
      replaceAll(
        replaceAll(
          replaceAll(
            replaceAll(stringOf(value), "<", <<"&", "l", "t", ";">>),
            ">", <<"&", "g", "t", ";">>),
          "\"", <<"&", "q", "u", "o", "t", ";">>),
        "'", <<"&", "a", "p", "o", "s", ";">>),
      "&", <<"&", "a", "m", "p", ";">>)

\* lines 247-253: the five replacements, in the order they are applied
escapeXml(value) ==
    replaceAll(
      replaceAll(
        replaceAll(
          replaceAll(
            replaceAll(stringOf(value), "&", <<"&", "a", "m", "p", ";">>),
            "<", <<"&", "l", "t", ";">>),
          ">", <<"&", "g", "t", ";">>),
        "\"", <<"&", "q", "u", "o", "t", ";">>),
      "'", <<"&", "a", "p", "o", "s", ";">>)

Letter ==
    <<"A", "B", "C", "D", "E", "F", "G", "H", "I", "J", "K", "L", "M",
      "N", "O", "P", "Q", "R", "S", "T", "U", "V", "W", "X", "Y", "Z">>

\* (variant: ordinary base 26, the quotient not reduced by the digit taken)
RECURSIVE colLetterPositional(_, _)
colLetterPositional(n, col) ==
    IF n > 0
    THEN colLetterPositional(n \div 26, <<Letter[((n - 1) % 26) + 1]>> \o col)
    ELSE col

\* lines 257-262: the while loop, from n and the letters found so far
RECURSIVE colLetterFrom(_, _)
colLetterFrom(n, col) ==
    IF n > 0
    THEN colLetterFrom((n - 1) \div 26, <<Letter[((n - 1) % 26) + 1]>> \o col)
    ELSE col

\* lines 255-264
colLetter(index) == colLetterFrom(index + 1, <<>>)

\* an attribute: name="value"
attribute(name, value) == <<name, "\"">> \o value \o <<"\"">>

\* lines 270-277: one cell
cellXml(value, colIndex, rowIndex) ==
    LET ref == colLetter(colIndex) \o digits(rowIndex + 1)
    IN  IF typeOf(value) = "number"
        THEN <<"<">> \o attribute("c r=", ref) \o <<">", "<", "v", ">">>
                \o numberToString(value) \o <<"<", "/v", ">", "<", "/c", ">">>
        ELSE <<"<">> \o attribute("c r=", ref) \o attribute(" t=", <<"inlineStr">>)
                \o <<">", "<", "is", ">", "<", "t", ">">>
                \o escapeXml(value)
                \o <<"<", "/t", ">", "<", "/is", ">", "<", "/c", ">">>

\* lines 267-280: one row
rowXml(row, rowIndex) ==
    <<"<">> \o attribute("row r=", digits(rowIndex + 1)) \o <<">">>
       \o join([c \in 1..Len(row) |-> cellXml(row[c], c - 1, rowIndex)], <<>>)
       \o <<"<", "/row", ">">>

\* lines 266-282
buildSheetXml(sheetRows) ==
    join([r \in 1..Len(sheetRows) |-> rowXml(sheetRows[r], r - 1)], <<>>)

\* `<?xml version="1.0" encoding="UTF-8" standalone="yes"?>\n`
xmlDeclaration ==
    <<"<">> \o attribute("?xml version=", <<"1.0">>)
       \o attribute(" encoding=", <<"UTF-8">>)
       \o attribute(" standalone=", <<"yes">>) \o <<"?", ">", "\n">>

\* an element's start tag, empty-element tag and end tag
startTag(name, attributes) == <<"<", name>> \o attributes \o <<">">>
emptyTag(name, attributes) == <<"<", name>> \o attributes \o <<"/", ">">>
endTag(name) == <<"<", "/" \o name, ">">>

mainNamespace == <<"http://schemas.openxmlformats.org/spreadsheetml/2006/main">>
packageNamespace == "http://schemas.openxmlformats.org/package/2006/"
documentNamespace == "http://schemas.openxmlformats.org/officeDocument/2006/relationships"
packageType == "application/vnd.openxmlformats-package."
documentType == "application/vnd.openxmlformats-officedocument.spreadsheetml."

\* lines 284-291: the entry of one sheet (index is 0-based)
sheetEntry(sheet, index) ==
    [index |-> index,
     name |-> sheet.name,
     xml |-> xmlDeclaration
               \o startTag("worksheet", attribute(" xmlns=", mainNamespace))
               \o startTag("sheetData", <<>>) \o buildSheetXml(sheet.rows)
               \o endTag("sheetData") \o endTag("worksheet")]

\* lines 293-298
workbookSheets(entries) ==
    join([k \in 1..Len(entries) |->
             emptyTag("sheet",
                      attribute(" name=", escapeXml(Lit(entries[k].name)))
                         \o attribute(" sheetId=", digits(entries[k].index + 1))
                         \o attribute(" r:id=", <<"rId">> \o digits(entries[k].index + 1)))],
         <<>>)

\* lines 300-303
workbookXml(entries) ==
    xmlDeclaration
       \o startTag("workbook",
                   attribute(" xmlns=", mainNamespace)
                      \o attribute(" xmlns:r=", <<documentNamespace>>))
       \o startTag("sheets", <<>>) \o workbookSheets(entries) \o endTag("sheets")
       \o endTag("workbook")

\* lines 305-309
relsXml ==
    xmlDeclaration
       \o startTag("Relationships",
                   attribute(" xmlns=", <<packageNamespace \o "relationships">>))
       \o emptyTag("Relationship",
                   attribute(" Id=", <<"rId1">>)
                      \o attribute(" Type=", <<documentNamespace \o "/officeDocument">>)
                      \o attribute(" Target=", <<"xl/workbook.xml">>))
       \o endTag("Relationships")

\* `xl/worksheets/sheet${sheet.index + 1}.xml`, and its spelling relative to xl/
worksheetTarget(index) == <<"worksheets/sheet">> \o digits(index + 1) \o <<".xml">>
worksheetPart(index) == <<"xl/">> \o worksheetTarget(index)

\* lines 311-320
workbookRelsXml(entries) ==
    xmlDeclaration
       \o startTag("Relationships",
                   attribute(" xmlns=", <<packageNamespace \o "relationships">>))
       \o join([k \in 1..Len(entries) |->
                  emptyTag("Relationship",
                           attribute(" Id=", <<"rId">> \o digits(entries[k].index + 1))
                              \o attribute(" Type=", <<documentNamespace \o "/worksheet">>)
                              \o attribute(" Target=",
                                           worksheetTarget(entries[k].index)))],
               <<>>)
       \o endTag("Relationships")

\* lines 322-334
contentTypesXml(entries) ==
    xmlDeclaration
       \o startTag("Types",
                   attribute(" xmlns=", <<packageNamespace \o "content-types">>))
       \o emptyTag("Default",
                   attribute(" Extension=", <<"rels">>)
                      \o attribute(" ContentType=",
                                   <<packageType \o "relationships+xml">>))
       \o emptyTag("Default",
                   attribute(" Extension=", <<"xml">>)
                      \o attribute(" ContentType=", <<"application/xml">>))
       \o emptyTag("Override",
                   attribute(" PartName=", <<"/xl/workbook.xml">>)
                      \o attribute(" ContentType=",
                                   <<documentType \o "sheet.main+xml">>))
       \o join([k \in 1..Len(entries) |->
                  emptyTag("Override",
                           attribute(" PartName=",
                                     <<"/">> \o worksheetPart(entries[k].index))
                              \o attribute(" ContentType=",
                                           <<documentType \o "worksheet+xml">>))],
               <<>>)
       \o endTag("Types")

\* zipEntries[key] = value on an object kept as its list of entries in
\* insertion order: a key already there keeps its place and gets the value
setEntry(entries, key, value) ==
    IF \E k \in 1..Len(entries) : entries[k].name = key
    THEN [k \in 1..Len(entries) |->
             IF entries[k].name = key THEN [name |-> key, content |-> value]
             ELSE entries[k]]
    ELSE Append(entries, [name |-> key, content |-> value])

\* lines 336-341: the four fixed parts (strToU8 of a text is the text's bytes)
fixedEntries(entries) ==
    << [name |-> "[Content_Types].xml", content |-> contentTypesXml(entries)],
       [name |-> "_rels/.rels", content |-> relsXml],
       [name |-> "xl/workbook.xml", content |-> workbookXml(entries)],
       [name |-> "xl/_rels/workbook.xml.rels", content |-> workbookRelsXml(entries)] >>

\* line 347: zipSync writes one file per key of its argument, in key order;
\* the archive is kept as that directory (compression is not modelled)
zipSync(entries) ==
    [k \in 1..Len(entries) |->
        [path |-> entries[k].name, data |-> entries[k].content]]

-----------------------------------------------------------------------------
(* buildXlsxBinary as a process, on the metadata exportXLSX hands it
   (App.jsx lines 233-246) and on sparser ones *)

\* longest scenario name drawn piece by piece
MaxNameLen == 2

NamePieces == {"&", "<", ">", "\"", "'", ";", "a"}

ScenarioNames ==
    UNION { [1..n -> NamePieces] : n \in 0..MaxNameLen }
    \cup { <<"&", "a", "m", "p", ";">>,
           <<"&", "l", "t", ";">>,
           <<"&", "a", "m", "p", ";", "l", "t", ";">>,
           <<"R", "&", "D ", "<", "b", ">", " ", "\"", "q", "\"", " it", "'", "s">> }

XlsxPipeline ==
    [array |->
        << [name |-> Text(<<"Fees ", "&", " charges">>), amount |-> Num(4),
            startYear |-> 3, recurring |-> TRUE, confidence |-> Rat(1, 2)],
           [amount |-> Rat(-25, 4), recurring |-> FALSE],
           [name |-> Lit("Estates"), startYear |-> 1] >>]

\* the object literal of exportXLSX
exportMeta(name) ==
    [scenario |-> Text(name),
     timestamp |-> Lit("2026-11-01T09:00:00.000Z"),
     inputs |-> inputs,
     assumptions |-> assumptions,
     fundingShock |-> fundingShock,
     debt |-> debt,
     overrides |-> overrides,
     pipeline |-> XlsxPipeline,
     stress |-> stress,
     governanceNotes |-> [array |-> <<Text(name), Null, Lit("agreed")>>]]

\* metadata with fields missing or null
SparseMetas ==
    { EmptyObject,
      [scenario |-> Lit("Base")],
      [scenario |-> Null, inputs |-> Null, pipeline |-> Null, overrides |-> Null,
       governanceNotes |-> Null, stress |-> Null],
      [inputs |-> [payAward |-> Rat(5, 2)], pipeline |-> [array |-> <<>>],
       fundingShock |-> [enabled |-> TRUE], debt |-> EmptyObject,
       stress |-> [seed |-> Num(-1)]] }

\* the rows exported: none, or the first two of the scenario
XlsxRowCounts == {0, 2}

\* the scenario's assumptions: initialState with amounts of a few digits
XlsxAssumptions ==
    [initialState EXCEPT !.previousYearBase = Num(200),
                         !.plannedSavings = Num(10),
                         !.demandPressures = Num(16),
                         !.taxBase = Num(12),
                         !.averageBandD = Num(8)]

InitXlsx ==
    /\ inputs \in InputsFew
    /\ overrides \in OverridesFew
    /\ fundingShock = [enabled |-> TRUE, yearIndex |-> 1, amount |-> Num(-10)]
    /\ debt = Undefined
    /\ assumptions = XlsxAssumptions
    /\ pipeline = [array |-> <<>>]
    /\ stress = defaultStress
    /\ \E count \in XlsxRowCounts :
          viewRows =
             firstRows(computeProjections(inputs, overrides, fundingShock, debt,
                                          assumptions, pipeline), count)
    /\ xlsxMeta \in {Undefined, Null} \cup SparseMetas
                  \cup { exportMeta(name) : name \in ScenarioNames }
    /\ ProjectIdle
    /\ SolveIdle
    /\ StressIdle
    /\ ConfigIdle
    /\ ViewsNotComputed
    /\ SensIdle
    /\ SessionIdle
    /\ XlsxIdle

xlsxFrame ==
    <<scenarioVars, projVars, solveVars, stressVars, configVars, viewVars, sensVars,
      sessionVars, xlsxMeta, sheetRow, cells>>

\* lines 141-245: the sheets and their rows
XlsxSheets ==
    /\ xlsxPc = "idle"
    /\ xlsxPc' = "entries"
    /\ sheets' = buildSheets(viewRows, xlsxMeta)
    /\ sheetEntries' = <<>>
    /\ UNCHANGED <<xlsxI, zipEntries, archive, xlsxFrame>>

\* lines 284-291: the map callback for one sheet
XlsxSheetEntry ==
    /\ xlsxPc = "entries"
    /\ Len(sheetEntries) < Len(sheets)
    /\ sheetEntries' =
          Append(sheetEntries,
                 sheetEntry(sheets[Len(sheetEntries) + 1], Len(sheetEntries)))
    /\ UNCHANGED <<xlsxPc, xlsxI, sheets, zipEntries, archive, xlsxFrame>>

\* lines 293-341: the workbook, the relationships, the content types and the
\* object holding the four fixed parts
XlsxFixedParts ==
    /\ xlsxPc = "entries"
    /\ Len(sheetEntries) = Len(sheets)
    /\ xlsxPc' = "files"
    /\ xlsxI' = 0
    /\ zipEntries' = fixedEntries(sheetEntries)
    /\ UNCHANGED <<sheets, sheetEntries, archive, xlsxFrame>>

\* lines 343-345: the forEach callback for one sheet
XlsxSheetPart ==
    /\ xlsxPc = "files"
    /\ xlsxI < Len(sheetEntries)
    /\ zipEntries' =
          setEntry(zipEntries,
                   flatten(worksheetPart(sheetEntries[xlsxI + 1].index)),
                   sheetEntries[xlsxI + 1].xml)
    /\ xlsxI' = xlsxI + 1
    /\ UNCHANGED <<xlsxPc, sheets, sheetEntries, archive, xlsxFrame>>

\* line 347: return zipSync(zipEntries)
XlsxReturn ==
    /\ xlsxPc = "files"
    /\ xlsxI >= Len(sheetEntries)
    /\ xlsxPc' = "done"
    /\ archive' = zipSync(zipEntries)
    /\ UNCHANGED <<xlsxI, sheets, sheetEntries, zipEntries, xlsxFrame>>

NextXlsx ==
    XlsxSheets \/ XlsxSheetEntry \/ XlsxFixedParts \/ XlsxSheetPart \/ XlsxReturn

SpecXlsx == InitXlsx /\ [][NextXlsx]_vars

-----------------------------------------------------------------------------
(* buildSheetXml on one wide row (part_000 lines 266-282): the inner map
   callback runs once for each cell of the row, left to right *)

\* the widest row written
MaxColumns == 703

\* the 0-based indexes of the rows written
RowIndexes == {0, 9, 99}

\* the value in column colIndex of the row: numbers and texts alternate
wideRowValue(colIndex) == IF colIndex % 2 = 0 THEN Num(colIndex) ELSE Lit("n")

InitWideRow ==
    /\ inputs = initialState.baseline
    /\ overrides = defaultOverrides
    /\ fundingShock = defaultFundingShock
    /\ debt = Undefined
    /\ assumptions = initialState
    /\ pipeline = [array |-> <<>>]
    /\ stress = defaultStress
    /\ viewRows = <<>>
    /\ xlsxMeta = Undefined
    /\ ProjectIdle
    /\ SolveIdle
    /\ StressIdle
    /\ ConfigIdle
    /\ ViewsNotComputed
    /\ SensIdle
    /\ SessionIdle
    /\ xlsxPc = "idle"
    /\ xlsxI = 0
    /\ sheets = <<>>
    /\ sheetEntries = <<>>
    /\ zipEntries = <<>>
    /\ archive = Undefined
    /\ sheetRow \in RowIndexes
    /\ cells = <<>>

\* lines 269-277: the map callback for the cell at colIndex = Len(cells)
WriteCell ==
    /\ Len(cells) < MaxColumns
    /\ cells' = Append(cells, cellXml(wideRowValue(Len(cells)), Len(cells), sheetRow))
    /\ UNCHANGED <<scenarioVars, projVars, solveVars, stressVars, configVars,
                   viewVars, sensVars, sessionVars, xlsxMeta, xlsxPc, xlsxI, sheets,
                   sheetEntries, zipEntries, archive, sheetRow>>

NextWideRow == WriteCell

SpecWideRow == InitWideRow /\ [][NextWideRow]_vars

-----------------------------------------------------------------------------
(* Properties of the views *)

\* the rows handed to the views are still the rows the engine returns for
\* the scenario
RowsIntact ==
    viewRows = firstRows(computeProjections(inputs, overrides, fundingShock, debt,
                                            assumptions, pipeline), Len(viewRows))

\* the positions of the rows whose reserves are used up
ExhaustedAt == { k \in 1..Len(viewRows) : viewRows[k].reservesEnd.num <= 0 }

\* C15: findReserveExhaustion returns the first row in year order whose
\* reservesEnd <= 0, a reserve of exactly 0 counting as exhausted; it returns
\* no row exactly when every row has reservesEnd > 0, and never a row that
\* comes after another exhausted row.
C15_FirstExhaustedRow ==
    "exhaustion" \in viewsDone =>
        /\ (exhaustion = Undefined) <=> (ExhaustedAt = {})
        /\ ExhaustedAt # {} =>
              \E k \in ExhaustedAt :
                  /\ exhaustion = viewRows[k]
                  /\ \A j \in 1..(k - 1) : viewRows[j].reservesEnd.num > 0

\* the reserves reach exactly 0 in a year after the first, and that year's
\* row is the one returned
C15_Witness ==
    /\ "exhaustion" \in viewsDone
    /\ Len(viewRows) = Horizon
    /\ viewRows[1].reservesEnd.num > 0
    /\ exhaustion # Undefined
    /\ exhaustion.reservesEnd = Zero

WaterfallLabels == <<"Base", "Pay+Infl", "Demand", "Debt", "Savings", "Funding", "Gap">>

\* C16: computeWaterfall returns the empty sequence for no rows, and
\* otherwise exactly seven entries, in the order Base, Pay+Infl, Demand, Debt,
\* Savings, Funding, Gap, whose values are assumptions.previousYearBase and
\* year 1's payPriceInflation, demandPressures, debtCost, -plannedSavings,
\* -totalFunding and annualGap; no later row affects it.
C16_WaterfallFromYearOne ==
    "waterfall" \in viewsDone =>
        IF Len(viewRows) = 0 THEN waterfall = <<>>
        ELSE /\ Len(waterfall) = 7
             /\ [k \in 1..7 |-> waterfall[k].label] = WaterfallLabels
             /\ [k \in 1..7 |-> waterfall[k].value] =
                   << assumptions.previousYearBase,
                      viewRows[1].payPriceInflation,
                      viewRows[1].demandPressures,
                      viewRows[1].debtCost,
                      Sub(Zero, viewRows[1].plannedSavings),
                      Sub(Zero, viewRows[1].totalFunding),
                      viewRows[1].annualGap >>

\* a waterfall of five rows whose last row differs from year 1 in every
\* value the waterfall reads
C16_Witness ==
    /\ "waterfall" \in viewsDone
    /\ Len(viewRows) = Horizon
    /\ Len(waterfall) = 7
    /\ viewRows[Horizon].annualGap # viewRows[1].annualGap
    /\ viewRows[Horizon].totalFunding # viewRows[1].totalFunding
    /\ viewRows[1].debtCost # Zero

\* the factor the claim gives a service
claimedFactor(service) ==
    IF service \in DOMAIN assumptions.serviceAssumptions
    THEN Add(One, Rat(Add(assumptions.serviceAssumptions[service].inflationAdj,
                          assumptions.serviceAssumptions[service].demandAdj).num,
                      Add(assumptions.serviceAssumptions[service].inflationAdj,
                          assumptions.serviceAssumptions[service].demandAdj).den * 100))
    ELSE One

\* C17: computeServiceBreakdown returns, for every service key of
\* assumptions.serviceSplits and every row, requirement =
\* netBudgetRequirement * split * factor and gapShare = annualGap * split *
\* factor with factor = 1 + (inflationAdj + demandAdj) / 100, factor 1 for a
\* service without an adjustment record, whatever the splits add up to; the
\* rows it was computed from are unchanged.
C17_ServiceShares ==
    "breakdown" \in viewsDone =>
        /\ DOMAIN breakdown = DOMAIN assumptions.serviceSplits
        /\ \A service \in DOMAIN assumptions.serviceSplits :
              /\ Len(breakdown[service]) = Len(viewRows)
              /\ \A k \in 1..Len(viewRows) :
                    /\ breakdown[service][k].year = viewRows[k].year
                    /\ breakdown[service][k].service = service
                    /\ breakdown[service][k].requirement =
                          Mul(viewRows[k].netBudgetRequirement,
                              Mul(assumptions.serviceSplits[service],
                                  claimedFactor(service)))
                    /\ breakdown[service][k].gapShare =
                          Mul(viewRows[k].annualGap,
                              Mul(assumptions.serviceSplits[service],
                                  claimedFactor(service)))
        /\ RowsIntact

\* a breakdown of five rows where the splits add up to 5/4, Housing has no
\* adjustment record and Adults has a factor of 2
C17_Witness ==
    /\ "breakdown" \in viewsDone
    /\ Len(viewRows) = Horizon
    /\ "Housing" \notin DOMAIN assumptions.serviceAssumptions
    /\ Add(Add(assumptions.serviceSplits.Adults, assumptions.serviceSplits.Children),
           assumptions.serviceSplits.Housing) = Rat(5, 4)
    /\ breakdown.Housing[2].requirement =
          Mul(viewRows[2].netBudgetRequirement, Rat(1, 4))
    /\ breakdown.Adults[2].gapShare = viewRows[2].annualGap
    /\ viewRows[2].annualGap # Zero

\* C18: solveAdditionalSavings returns the year-1 annualGap when it is
\* positive and 0 otherwise, also for no rows; the result is never negative
\* and is fixed by the first row alone.
C18_AdditionalSavings ==
    "additionalSavings" \in viewsDone =>
        /\ additionalSavings.num >= 0
        /\ additionalSavings =
              IF Len(viewRows) > 0 /\ viewRows[1].annualGap.num > 0
              THEN viewRows[1].annualGap
              ELSE Zero

\* year 1 has a surplus, a later year a gap, and nothing is asked for
C18_Witness ==
    /\ "additionalSavings" \in viewsDone
    /\ Len(viewRows) = Horizon
    /\ viewRows[1].annualGap.num < 0
    /\ \E k \in 2..Horizon : viewRows[k].annualGap.num > 0
    /\ additionalSavings = Zero

\* the value of one decimal digit
digitValue(c) == CHOOSE d \in 0..9 : Digit[d + 1] = c

\* the natural number a run of decimal digits writes
RECURSIVE readDigits(_)
readDigits(text) ==
    IF text = <<>> THEN 0
    ELSE readDigits(SubSeq(text, 1, Len(text) - 1)) * 10 + digitValue(text[Len(text)])

RECURSIVE tenTo(_)
tenTo(k) == IF k = 0 THEN 1 ELSE 10 * tenTo(k - 1)

\* the number a decimal numeral writes: an optional sign, digits, and an
\* optional point followed by digits
readNumber(text) ==
    LET negative == text # <<>> /\ text[1] = "-"
        unsigned == IF negative THEN Tail(text) ELSE text
        parts == splitText(unsigned, ".")
        whole == Num(readDigits(parts[1]))
        fraction == IF Len(parts) = 1 THEN Zero
                    ELSE Rat(readDigits(parts[2]), tenTo(Len(parts[2])))
        magnitude == Add(whole, fraction)
    IN  IF negative THEN Neg(magnitude) ELSE magnitude

\* a text made of digits, with at most one leading sign and one point
IsNumeral(text) ==
    /\ text # <<>>
    /\ \A k \in 1..Len(text) :
          \/ \E d \in 1..10 : Digit[d] = text[k]
          \/ text[k] = "-" /\ k = 1
          \/ text[k] = "." /\ k > 1 /\ k < Len(text)
    /\ Cardinality({ k \in 1..Len(text) : text[k] = "." }) <= 1

CsvHeaderLine ==
    <<"Y", "e", "a", "r", ",", "N", "e", "t", " ", "B", "u", "d", "g", "e", "t", " ", "R", "e", "q", "u">>
           \o <<"i", "r", "e", "m", "e", "n", "t", ",", "T", "o", "t", "a", "l", " ", "F", "u", "n", "d", "i", "n">>
           \o <<"g", ",", "A", "n", "n", "u", "a", "l", " ", "G", "a", "p", ",", "R", "e", "s", "e", "r", "v", "e", "s", " ", "E", "n", "d">>

\* C19: buildCSV returns exactly rows.length + 1 lines: the header
\* 'Year,Net Budget Requirement,Total Funding,Annual Gap,Reserves End', then
\* one line per row in input order holding the row's year, netBudgetRequirement,
\* totalFunding, annualGap and reservesEnd joined by commas, nothing quoted or
\* escaped; every line of engine rows has exactly five comma-separated fields.
C19_CsvLines ==
    "csv" \in viewsDone =>
        LET lines == splitText(csv, "\n")
        IN  /\ Len(lines) = Len(viewRows) + 1
            /\ lines[1] = CsvHeaderLine
            /\ Len(splitText(lines[1], ",")) = 5
            /\ \A k \in 1..Len(viewRows) :
                  LET fields == splitText(lines[k + 1], ",")
                  IN  /\ Len(fields) = 5
                      /\ flatten(fields[1]) = viewRows[k].year
                      /\ \A f \in 2..5 : IsNumeral(fields[f])
                      /\ readNumber(fields[2]) = viewRows[k].netBudgetRequirement
                      /\ readNumber(fields[3]) = viewRows[k].totalFunding
                      /\ readNumber(fields[4]) = viewRows[k].annualGap
                      /\ readNumber(fields[5]) = viewRows[k].reservesEnd

\* five rows are written, one of them with a fractional gap and reserves
\* below zero
C19_Witness ==
    /\ "csv" \in viewsDone
    /\ Len(viewRows) = Horizon
    /\ Len(splitText(csv, "\n")) = Horizon + 1
    /\ \E k \in 1..Horizon :
          /\ viewRows[k].annualGap.den > 1
          /\ viewRows[k].reservesEnd.num < 0

\* the sum of the values of the entries first..last of a waterfall
RECURSIVE valuesSum(_, _, _)
valuesSum(entries, first, last) ==
    IF first > last THEN Zero
    ELSE Add(valuesSum(entries, first, last - 1), entries[last].value)

\* C30: the waterfall of the rows of computeProjections, computed with the
\* same assumptions, balances: Base + Pay+Infl + Demand + Debt + Savings +
\* Funding (the last two negated) = Gap, with overrides, pipeline items and a
\* year-1 funding shock in force too.
C30_WaterfallBalances ==
    "waterfall" \in viewsDone =>
        /\ RowsIntact
        /\ Len(waterfall) = 7
        /\ valuesSum(waterfall, 1, 6) = waterfall[7].value

\* a waterfall of a scenario whose year 1 has an override, pipeline savings
\* and a funding shock in force, and a gap that is not zero
C30_Witness ==
    /\ "waterfall" \in viewsDone
    /\ Flag(overrides.array[1], "enabled")
    /\ Flag(fundingShock, "enabled")
    /\ fundingShock.yearIndex = 0
    /\ viewRows[1].shockAmount = Num(-10)
    /\ viewRows[1].pipelineSavings # Zero
    /\ waterfall[7].value # Zero
    /\ waterfall[5].value # Neg(assumptions.plannedSavings)

-----------------------------------------------------------------------------
(* Properties of computeSensitivity *)

\* the baseline inputs with one driver moved by delta percentage points
moved(key, delta) ==
    [councilTaxIncrease |->
        IF key = "councilTaxIncrease" THEN Add(inputs.councilTaxIncrease, Num(delta))
        ELSE inputs.councilTaxIncrease,
     payAward |->
        IF key = "payAward" THEN Add(inputs.payAward, Num(delta))
        ELSE inputs.payAward,
     generalInflation |->
        IF key = "generalInflation" THEN Add(inputs.generalInflation, Num(delta))
        ELSE inputs.generalInflation,
     socialCareGrowth |->
        IF key = "socialCareGrowth" THEN Add(inputs.socialCareGrowth, Num(delta))
        ELSE inputs.socialCareGrowth]

\* the year-1 gap of the scenario with the baseline inputs replaced
gapWith(inp) ==
    computeProjections(inp, overrides, fundingShock, debt, assumptions,
                       pipeline)[1].annualGap

DriverOrder ==
    << <<"councilTaxIncrease", "Council Tax %">>,
       <<"payAward", "Pay Award %">>,
       <<"generalInflation", "General Inflation %">>,
       <<"socialCareGrowth", "Demand Growth %">> >>

\* C14: computeSensitivity returns one entry per driver in the order council
\* tax, pay award, general inflation, demand growth, and for each driver d
\* up = gap(d + 1) - gap(baseline) and down = gap(baseline) - gap(d - 1), gap
\* being the year-1 annualGap with every other driver and argument held fixed.
C14_SensitivityEntries ==
    sensPc = "done" =>
        /\ Len(sensitivity) = 4
        /\ \A k \in 1..4 :
              /\ sensitivity[k].driver = DriverOrder[k][2]
              /\ sensitivity[k].up =
                    Sub(gapWith(moved(DriverOrder[k][1], 1)), gapWith(inputs))
              /\ sensitivity[k].down =
                    Sub(gapWith(inputs), gapWith(moved(DriverOrder[k][1], -1)))

\* a point more council tax narrows the year-1 gap, a point more pay award
\* widens it, and a point of demand growth leaves year 1 as it is
C14_Witness ==
    /\ sensPc = "done"
    /\ sensitivity[1].up.num < 0
    /\ sensitivity[1].down.num < 0
    /\ sensitivity[2].up.num > 0
    /\ sensitivity[3].down.num > 0
    /\ sensitivity[4].up = Zero

\* an enabled year-1 override supplies the driver
SuppliedByOverride(key) ==
    /\ Len(overrides.array) >= 1
    /\ Flag(overrides.array[1], "enabled")
    /\ ~IsNullish(Get(overrides.array[1], key))

\* what a percentage point of the driver adds to the year-1 gap
pointEffect(key) ==
    LET asm == IF assumptions = Undefined THEN initialState ELSE assumptions
    IN  IF SuppliedByOverride(key) THEN Zero
        ELSE IF key = "councilTaxIncrease"
        THEN Sub(Zero, Mul(Mul(asm.taxBase, asm.averageBandD), Rat(1, 100)))
        ELSE IF key \in {"payAward", "generalInflation"}
        THEN Mul(asm.previousYearBase, Rat(1, 100))
        ELSE Zero

\* C29: computeSensitivity reports up = down for each driver: 0 for demand
\* growth, previousYearBase / 100 for pay award and for general inflation,
\* -(taxBase * averageBandD) / 100 for council tax, and 0 for a driver that an
\* enabled year-1 override supplies with a non-null value.
C29_SymmetricSensitivity ==
    sensPc = "done" =>
        \A k \in 1..4 :
           /\ sensitivity[k].up = sensitivity[k].down
           /\ sensitivity[k].up = pointEffect(DriverOrder[k][1])

\* a year-1 override supplies council tax and general inflation: their
\* entries are 0 and pay award's is a hundredth of the previous year's base
C29_Witness ==
    /\ sensPc = "done"
    /\ SuppliedByOverride("generalInflation")
    /\ ~SuppliedByOverride("payAward")
    /\ sensitivity[1].down = Zero
    /\ sensitivity[3].up = Zero
    /\ sensitivity[2].up = Num(2)
    /\ sensitivity[2].down = Num(2)

-----------------------------------------------------------------------------
(* Properties of the bisection *)

\* the locals before the k-th tested midpoint
beforeProbe(k) ==
    IF k = 1 THEN [low |-> Num(0), high |-> Num(5), best |-> Null]
    ELSE [low |-> probes[k - 1].low, high |-> probes[k - 1].high,
          best |-> probes[k - 1].best]

\* the k-th step tested the midpoint of its bracket and moved the end the
\* rule names
StepFollowsRule(k) ==
    /\ Add(probes[k].rate, probes[k].rate) =
          Add(beforeProbe(k).low, beforeProbe(k).high)
    /\ IF probes[k].gap.num > 0
       THEN /\ probes[k].low = probes[k].rate
            /\ probes[k].high = beforeProbe(k).high
            /\ probes[k].best = beforeProbe(k).best
       ELSE /\ probes[k].low = beforeProbe(k).low
            /\ probes[k].high = probes[k].rate
            /\ probes[k].best = probes[k].rate

\* the tested rates whose year-1 gap is <= 0
Closing == { probes[k].rate : k \in { j \in 1..Len(probes) : probes[j].gap.num <= 0 } }

\* the bracket and the count of evaluations while the search runs and after
BisectionRuns ==
    /\ Len(probes) = solveI
    /\ solveI <= 20
    /\ solvePc = "done" => solveI = 20
    /\ solveI > 0 => probes[solveI].gap = gapAt(probes[solveI].rate)
    /\ low.num >= 0
    /\ Lt(low, high)
    /\ Le(high, Num(5))
    /\ Sub(high, low) = Mul(Num(5), Pow(Rat(1, 2), solveI))
    /\ best # Null => best = high
    /\ \A k \in 1..Len(probes) : StepFollowsRule(k)

\* C20 as stated: exactly 20 bisection iterations on [0, 5] with no early
\* exit; low raised to the midpoint when its year-1 gap is > 0, otherwise
\* high lowered to it and it recorded as best; after k iterations
\* 0 <= low < high <= 5, high - low = 5 / 2^k, and best == high once recorded;
\* the value returned is a recorded best, the smallest tested rate whose gap
\* is <= 0, for the engine always yields rows.
C20_ReturnsRecordedBest ==
    solvePc \in {"loop", "done"} =>
        /\ BisectionRuns
        /\ solvePc = "done" =>
              /\ solveResult # Null
              /\ solveResult \in Closing
              /\ \A rate \in Closing : Le(solveResult, rate)

\* C20, amended: the same search, and the value returned is the smallest
\* tested rate whose gap is <= 0 when a tested rate has one, and null when
\* none has (best was never recorded), although the engine yielded rows.
C20_TwentyBisections ==
    solvePc \in {"loop", "done"} =>
        /\ BisectionRuns
        /\ solvePc = "done" =>
              IF Closing = {} THEN solveResult = Null
              ELSE /\ solveResult \in Closing
                   /\ \A rate \in Closing : Le(solveResult, rate)

\* twenty midpoints were tested, the gap stayed open at each of them, and
\* null was returned
C20_Witness ==
    /\ solvePc = "done"
    /\ Len(probes) = 20
    /\ \A k \in 1..20 : probes[k].gap.num > 0
    /\ probes[20].rate = Sub(Num(5), Rat(5, 1048576))
    /\ solveResult = Null

\* the number of final steps a returned rate is made of, 0 when it is not a
\* whole number of them
stepsIn(rate) ==
    IF 1048576 % rate.den = 0 /\ (rate.num * (1048576 \div rate.den)) % 5 = 0
    THEN (rate.num * (1048576 \div rate.den)) \div 5
    ELSE 0

\* an enabled year-1 override supplies the council-tax driver
CouncilTaxFixed ==
    /\ Len(overrides.array) >= 1
    /\ Flag(overrides.array[1], "enabled")
    /\ ~IsNullish(Get(overrides.array[1], "councilTaxIncrease"))

\* C28: the solver returns null exactly when each of the 20 tested midpoints
\* has a year-1 gap > 0, although the engine yielded rows; otherwise it returns
\* m * 5/2^20 with 1 <= m <= 2^20 - 1, never 0 and never 5; it returns 5/2^20
\* when the gap is <= 0 at every tested rate, as it is or is not at all rates
\* alike when an enabled year-1 override fixes the council-tax driver.
C28_ResultRange ==
    solvePc = "done" =>
        /\ Len(probes) = 20
        /\ \A k \in 1..20 : IsNumber(probes[k].gap)
        /\ solveResult = Null <=> \A k \in 1..20 : Gt(probes[k].gap, Zero)
        /\ solveResult # Null =>
              /\ stepsIn(solveResult) \in 1..1048575
              /\ solveResult = Mul(Num(stepsIn(solveResult)), FinalStep)
              /\ solveResult # Num(0)
              /\ solveResult # Num(5)
        /\ (\A k \in 1..20 : Le(probes[k].gap, Zero)) => solveResult = FinalStep
        /\ CouncilTaxFixed =>
              /\ \A k \in 1..20 : probes[k].gap = probes[1].gap
              /\ solveResult = IF Gt(probes[1].gap, Zero) THEN Null ELSE FinalStep

\* the solver has returned the final step for a scenario whose year-1
\* override fixes the council-tax driver and whose gap is closed throughout
C28_Witness ==
    /\ solvePc = "done"
    /\ CouncilTaxFixed
    /\ \A k \in 1..20 : Le(probes[k].gap, Zero)
    /\ solveResult = Rat(5, 1048576)

-----------------------------------------------------------------------------
(* Properties of the workbook *)

FixedParts ==
    <<"[Content_Types].xml", "_rels/.rels", "xl/workbook.xml",
      "xl/_rels/workbook.xml.rels">>

MetadataSheets ==
    <<"Projections", "Scenario", "Assumptions", "Savings", "Overrides",
      "Governance", "Stress">>

NoMetadata == xlsxMeta \in {Undefined, Null}

DeclaredSheets == IF NoMetadata THEN <<"Projections">> ELSE MetadataSheets

\* the path of the n-th worksheet part, n < 10
worksheetPath(n) == "xl/worksheets/sheet" \o Digit[n + 1] \o ".xml"

\* C11: the archive returned holds the four fixed parts and then one
\* xl/worksheets/sheetN.xml per sheet, N = 1..sheetCount in the order of the
\* sheets, each holding its sheet's XML, and nothing else; the sheets are
\* [Projections] without metadata (5 parts) and Projections, Scenario,
\* Assumptions, Savings, Overrides, Governance, Stress with metadata (11
\* parts), whatever fields the metadata has.
C11_ArchiveParts ==
    xlsxPc = "done" =>
       /\ [k \in 1..Len(sheets) |-> sheets[k].name] = DeclaredSheets
       /\ [k \in 1..Len(archive) |-> archive[k].path]
             = FixedParts \o [n \in 1..Len(DeclaredSheets) |-> worksheetPath(n)]
       /\ Len(archive) = (IF NoMetadata THEN 5 ELSE 11)
       /\ \A n \in 1..Len(sheets) :
             /\ sheetEntries[n].name = DeclaredSheets[n]
             /\ archive[4 + n].data = sheetEntries[n].xml

\* an archive built from metadata that has no field at all
C11_Witness ==
    /\ xlsxPc = "done"
    /\ xlsxMeta = EmptyObject
    /\ Len(archive) = 11
    /\ archive[11].path = "xl/worksheets/sheet7.xml"

XmlSpecials == {"&", "<", ">", "\"", "'"}

EntityNames ==
    [amp |-> "&", lt |-> "<", gt |-> ">", quot |-> "\"", apos |-> "'"]

\* the entity that stands for a special character
entityOf(c) ==
    <<"&">>
       \o (CHOOSE name \in {<<"a", "m", "p">>, <<"l", "t">>, <<"g", "t">>,
                            <<"q", "u", "o", "t">>, <<"a", "p", "o", "s">>} :
              EntityNames[flatten(name)] = c)
       \o <<";">>

\* a text with every special character replaced by its entity, in one pass
escapedOnce(text) ==
    join([k \in 1..Len(text) |->
             IF text[k] \in XmlSpecials THEN entityOf(text[k]) ELSE <<text[k]>>],
         <<>>)

\* what an XML reader makes of character data: each of the five predefined
\* entity references stands for its character
RECURSIVE decodeXml(_)
decodeXml(text) ==
    IF text = <<>> THEN <<>>
    ELSE IF text[1] # "&" THEN <<text[1]>> \o decodeXml(Tail(text))
    ELSE LET ends == { k \in 2..Len(text) : text[k] = ";" }
             end == CHOOSE k \in ends : \A j \in ends : k <= j
         IN  IF ends # {} /\ flatten(SubSeq(text, 2, end - 1)) \in DOMAIN EntityNames
             THEN <<EntityNames[flatten(SubSeq(text, 2, end - 1))]>>
                     \o decodeXml(SubSeq(text, end + 1, Len(text)))
             ELSE <<"&">> \o decodeXml(Tail(text))

\* the character data of a text is well formed: no < > " ' and no & other
\* than the one that opens an entity reference
WellFormedData(text) ==
    \A k \in 1..Len(text) :
       /\ text[k] \notin {"<", ">", "\"", "'"}
       /\ text[k] = "&" =>
             \E j \in (k + 1)..Len(text) :
                /\ text[j] = ";"
                /\ flatten(SubSeq(text, k + 1, j - 1)) \in DOMAIN EntityNames

\* <c r="ref"><v>numeral</v></c>
numericNode(ref, numeral) ==
    <<"<", "c r=", "\"">> \o ref \o <<"\"", ">", "<", "v", ">">> \o numeral
       \o <<"<", "/v", ">", "<", "/c", ">">>

\* <c r="ref" t="inlineStr"><is><t>body</t></is></c>
inlineStringNode(ref, body) ==
    <<"<", "c r=", "\"">> \o ref \o <<"\"", " t=", "\"", "inlineStr", "\"", ">">>
       \o <<"<", "is", ">", "<", "t", ">">> \o body
       \o <<"<", "/t", ">", "<", "/is", ">", "<", "/c", ">">>

\* the node the cell at column c of row r (both from 1) is to be written as
cellNode(value, c, r) ==
    IF IsNumber(value)
    THEN numericNode(colLetter(c - 1) \o digits(r), numberToString(value))
    ELSE inlineStringNode(colLetter(c - 1) \o digits(r), escapedOnce(stringOf(value)))

\* the cell is a number whose numeral reads back as it, or a value whose
\* escaped text is well formed and decodes to the value's text
CellReadsBack(value) ==
    IF IsNumber(value)
    THEN /\ IsNumeral(numberToString(value))
         /\ readNumber(numberToString(value)) = value
    ELSE /\ WellFormedData(escapedOnce(stringOf(value)))
         /\ flatten(decodeXml(escapedOnce(stringOf(value)))) = flatten(stringOf(value))

\* the worksheet part that holds these rows cell by cell
worksheetOf(sheetRows) ==
    xmlDeclaration
       \o startTag("worksheet", attribute(" xmlns=", mainNamespace))
       \o startTag("sheetData", <<>>)
       \o join([r \in 1..Len(sheetRows) |->
                  <<"<", "row r=", "\"">> \o digits(r) \o <<"\"", ">">>
                     \o join([c \in 1..Len(sheetRows[r]) |->
                                 cellNode(sheetRows[r][c], c, r)], <<>>)
                     \o <<"<", "/row", ">">>],
               <<>>)
       \o endTag("sheetData") \o endTag("worksheet")

\* C12: in every worksheet built, a cell holding a number is a raw numeric
\* node and any other cell an inline string node whose text has & < > " '
\* replaced by their entities; decoding that text by the XML entity rules
\* gives back the original string, also for strings that already hold
\* entity-like text such as "&amp;" or "&lt;".
C12_CellsEscapedAndReadBack ==
    xlsxPc = "done" =>
       \A n \in 1..Len(sheets) :
          /\ archive[4 + n].data = worksheetOf(sheets[n].rows)
          /\ \A r \in 1..Len(sheets[n].rows) :
                \A c \in 1..Len(sheets[n].rows[r]) :
                   CellReadsBack(sheets[n].rows[r][c])

\* a workbook whose scenario name is the text "&amp;", next to numeric cells
C12_Witness ==
    /\ xlsxPc = "done"
    /\ Len(viewRows) = 2
    /\ Get(xlsxMeta, "scenario") = Text(<<"&", "a", "m", "p", ";">>)
    /\ sheets[2].rows[2][2] = Text(<<"&", "a", "m", "p", ";">>)
    /\ IsNumber(sheets[1].rows[2][2])

-----------------------------------------------------------------------------
(* Properties of the cell references *)

\* the r attribute of a cell node: what stands between its first two quotes
RECURSIVE upToQuote(_)
upToQuote(text) ==
    IF text = <<>> \/ Head(text) = "\"" THEN <<>>
    ELSE <<Head(text)>> \o upToQuote(Tail(text))

referenceOf(node) == upToQuote(SubSeq(node, 4, Len(node)))

\* the letters a reference starts with and what follows them
RECURSIVE lettersOf(_)
lettersOf(ref) ==
    IF ref = <<>> \/ Head(ref) \notin { Letter[d] : d \in 1..26 } THEN <<>>
    ELSE <<Head(ref)>> \o lettersOf(Tail(ref))

afterLetters(ref) == SubSeq(ref, Len(lettersOf(ref)) + 1, Len(ref))

\* a letter's digit, A = 1 .. Z = 26
letterDigit(l) == CHOOSE d \in 1..26 : Letter[d] = l

\* what a string of letters denotes in bijective base 26
RECURSIVE bijectiveValue(_)
bijectiveValue(letters) ==
    IF letters = <<>> THEN 0
    ELSE bijectiveValue(SubSeq(letters, 1, Len(letters) - 1)) * 26
            + letterDigit(letters[Len(letters)])

\* the letters the specification names for particular indexes
NamedColumns ==
    [c \in 0..25 |-> <<Letter[c + 1]>>]
       @@ (26 :> <<"A", "A">>) @@ (27 :> <<"A", "B">>)
       @@ (701 :> <<"Z", "Z">>) @@ (702 :> <<"A", "A", "A">>)

\* C26: the cell at 0-based column c of 0-based row r is referenced by the
\* letters of c in bijective base 26 (they denote c + 1; 0..25 are A..Z, 26 is
\* AA, 27 is AB, 701 is ZZ, 702 is AAA) followed by the decimal r + 1, and no
\* two cells of the row share a reference
C26_BijectiveColumnLetters ==
    /\ \A c \in 0..(Len(cells) - 1) :
          LET ref == referenceOf(cells[c + 1])
          IN  /\ lettersOf(ref) # <<>>
              /\ bijectiveValue(lettersOf(ref)) = c + 1
              /\ afterLetters(ref) = digits(sheetRow + 1)
              /\ c \in DOMAIN NamedColumns => lettersOf(ref) = NamedColumns[c]
    /\ Cardinality({ referenceOf(cells[c]) : c \in 1..Len(cells) }) = Len(cells)

\* a row past column AAA whose row number has more than one digit
C26_Witness ==
    /\ Len(cells) = 703
    /\ sheetRow = 99
    /\ referenceOf(cells[703]) = <<"A", "A", "A", "1", "0", "0">>
    /\ referenceOf(cells[27]) = <<"A", "A", "1", "0", "0">>

-----------------------------------------------------------------------------
(* Properties of a sequence of calls *)

\* C13: computeProjections, computeSensitivity, solveCouncilTaxIncrease and
\* computeStressTest never change a structure the caller supplied (inputs,
\* overrides, fundingShock, debt, assumptions, pipeline, stress): during and
\* after any sequence of these calls every argument equals the value it was
\* supplied with, and a call returns the same result whatever calls were made
\* before it.
C13_CallsLeaveNoTrace ==
    given # Undefined =>
        /\ suppliedArguments = given
        /\ \A a \in 1..Len(callLog) : \A b \in 1..Len(callLog) :
              callLog[a].call = callLog[b].call =>
                 callLog[a].result = callLog[b].result

\* computeProjections has returned twice, before and after a call of
\* computeSensitivity, and a third call has started
C13_Witness ==
    /\ given # Undefined
    /\ Len(callLog) = 3
    /\ callLog[1].call = "computeProjections"
    /\ callLog[2].call = "computeSensitivity"
    /\ callLog[3].call = "computeProjections"
    /\ Len(callLog[3].result) = Horizon

====
